---------------------------- MODULE Spec2Model ----------------------------
(***************************************************************************)
(* Cartograph: incremental code analysis and diagram projection.           *)
(*                                                                         *)
(* Two plugin entry points are modelled.                                   *)
(*   SpecLegacy  src/src/index.ts driving CodeAnalyzer                     *)
(*               (src/src/analyzer/treesitter.ts) and MdxGenerator         *)
(*               (src/src/generator/mdx.ts) through a debounce timer.      *)
(*   SpecPlugin  the worker based plugin (src/unnamed/part_011) with       *)
(*               src/src/worker/analyzer.worker.ts and the diagram         *)
(*               module (src/unnamed/part_010).                            *)
(* Paths, import sources and extensions are strings; the JavaScript string *)
(* and path functions the code uses are operators over them.  An async     *)
(* function is one action per stretch of code between two awaits.          *)
(* A value that is computed once and used several times is passed as an    *)
(* operator argument.                                                      *)
(***************************************************************************)
EXTENDS Integers, Sequences, FiniteSets, TLC

NULL == "null"

(***************************************************************************)
(* Bounds of the model.                                                    *)
(***************************************************************************)
MaxVersion == 2      \* contents a file can take (0 is "absent")
MaxEdits == 1        \* file-system edits in one behaviour
MaxNotifs == 2       \* hook calls (tool.execute.after, chat.message)
MaxPasses == 3       \* analysis passes started in one behaviour

(***************************************************************************)
(* JavaScript string functions.                                            *)
(***************************************************************************)
startsWith(s, p) == Len(p) <= Len(s) /\ SubSeq(s, 1, Len(p)) = p

endsWith(s, p) == Len(p) <= Len(s) /\ SubSeq(s, Len(s) - Len(p) + 1, Len(s)) = p

\* 1-based position of the first occurrence of t in s at or after i, else 0
RECURSIVE findFrom(_, _, _)
findFrom(s, t, i) ==
  IF i + Len(t) - 1 > Len(s) THEN 0
  ELSE IF SubSeq(s, i, i + Len(t) - 1) = t THEN i
  ELSE findFrom(s, t, i + 1)

\* 1-based position of the last occurrence of t in s at or before i, else 0
RECURSIVE findBack(_, _, _)
findBack(s, t, i) ==
  IF i < 1 THEN 0
  ELSE IF SubSeq(s, i, i + Len(t) - 1) = t THEN i
  ELSE findBack(s, t, i - 1)

\* String.prototype.indexOf and lastIndexOf, 1-based, 0 when there is none
indexOf(s, t) == findFrom(s, t, 1)

lastIndexOf(s, t) == findBack(s, t, Len(s) - Len(t) + 1)

includes(s, t) == indexOf(s, t) # 0

\* the character at position i of one alphabet, or c itself when i = 0
charAt(alphabet, i, c) == IF i = 0 THEN c ELSE SubSeq(alphabet, i, i)

lowerChar(c) ==
  charAt("abcdefghijklmnopqrstuvwxyz", indexOf("ABCDEFGHIJKLMNOPQRSTUVWXYZ", c), c)

upperChar(c) ==
  charAt("ABCDEFGHIJKLMNOPQRSTUVWXYZ", indexOf("abcdefghijklmnopqrstuvwxyz", c), c)

RECURSIVE toLowerCase(_)
toLowerCase(s) ==
  IF s = "" THEN ""
  ELSE lowerChar(SubSeq(s, 1, 1)) \o toLowerCase(SubSeq(s, 2, Len(s)))

\* String.prototype.split for a non-empty separator
RECURSIVE split(_, _)
RECURSIVE splitAt(_, _, _)
splitAt(s, sep, i) ==
  IF i = 0 THEN <<s>>
  ELSE <<SubSeq(s, 1, i - 1)>> \o split(SubSeq(s, i + Len(sep), Len(s)), sep)

split(s, sep) == splitAt(s, sep, indexOf(s, sep))

\* Array.prototype.join
RECURSIVE joinWith(_, _)
joinWith(segs, sep) ==
  IF segs = <<>> THEN ""
  ELSE IF Len(segs) = 1 THEN segs[1]
  ELSE segs[1] \o sep \o joinWith(Tail(segs), sep)

\* the elements of a sequence
Range(seq) == {seq[i] : i \in 1..Len(seq)}

\* Array.prototype.pop: the last element
pop(seq) == seq[Len(seq)]

\* Array.prototype.slice(0, -1)
sliceInit(seq) == SubSeq(seq, 1, Len(seq) - 1)

lastSegment(p) == pop(split(p, "/"))

(***************************************************************************)
(* Node's path module, for POSIX paths.                                    *)
(***************************************************************************)
isAbsolute(p) == startsWith(p, "/")

\* resolves "." and ".." segments; a relative path keeps leading ".."
RECURSIVE normalizeSegs(_, _)
normalizeSegs(todo, done) ==
  IF todo = <<>> THEN done
  ELSE IF Head(todo) = "" \/ Head(todo) = "." THEN normalizeSegs(Tail(todo), done)
  ELSE IF Head(todo) = ".." /\ done # <<>> /\ pop(done) # ".."
       THEN normalizeSegs(Tail(todo), sliceInit(done))
  ELSE normalizeSegs(Tail(todo), Append(done, Head(todo)))

\* an absolute path has no segment above the root
rooted(abs, segs) ==
  IF abs THEN SelectSeq(segs, LAMBDA x : x # "..") ELSE segs

normalizeBody(abs, body) ==
  IF abs THEN "/" \o body ELSE IF body = "" THEN "." ELSE body

normalizeFrom(abs, segs) == normalizeBody(abs, joinWith(rooted(abs, segs), "/"))

\* path.normalize (a trailing slash is dropped)
normalize(p) == normalizeFrom(isAbsolute(p), normalizeSegs(split(p, "/"), <<>>))

\* path.join(a, b)
join(a, b) ==
  IF a = "" THEN normalize(b)
  ELSE IF b = "" THEN normalize(a)
  ELSE normalize(a \o "/" \o b)

\* the part of base from position i on, "" for a dot at the start or no dot
fromDot(base, i) == IF i <= 1 THEN "" ELSE SubSeq(base, i, Len(base))

extnameOfBase(base) == fromDot(base, lastIndexOf(base, "."))

\* path.extname
extname(p) == extnameOfBase(lastSegment(p))

\* length of the common prefix of two segment lists
RECURSIVE commonPrefix(_, _)
commonPrefix(a, b) ==
  IF a = <<>> \/ b = <<>> \/ Head(a) # Head(b) THEN 0
  ELSE 1 + commonPrefix(Tail(a), Tail(b))

relativeSegs(f, t, k) ==
  joinWith([i \in 1..(Len(f) - k) |-> ".."] \o SubSeq(t, k + 1, Len(t)), "/")

relativeFrom(f, t) == relativeSegs(f, t, commonPrefix(f, t))

\* path.relative(from, to) for absolute paths
relative(from, to) ==
  relativeFrom(normalizeSegs(split(from, "/"), <<>>), normalizeSegs(split(to, "/"), <<>>))

(***************************************************************************)
(* The workspace.  A file has a content version; version 0 is "absent".    *)
(* FileUniverse lists the files that may exist, in directory-listing       *)
(* order.                                                                  *)
(***************************************************************************)
workspaceDir == "/w"

FileUniverse ==
  << "node_modules/lib/index.js",
     "src/api/routes.ts",
     "src/services/user.ts" >>

Files == Range(FileUniverse)

\* what the lexical scan of a file's text finds, by file and content version
Content(p, v) ==
  IF p = "src/api/routes.ts"
  THEN [imports |-> IF v >= 2 THEN <<"../services/user", "./missing">>
                              ELSE <<"../services/user", "express">>,
        functions |-> <<"getUsers">>, classes |-> <<>>, exports |-> <<"getUsers">>]
  ELSE IF p = "src/services/user.ts"
  THEN [imports |-> <<>>,
        functions |-> [i \in 1..v |-> "f" \o ToString(i)],
        classes |-> <<"UserService">>, exports |-> <<"UserService">>]
  ELSE [imports |-> <<>>,
        functions |-> [i \in 1..v |-> "f" \o ToString(i)],
        classes |-> <<>>, exports |-> <<>>]

(***************************************************************************)
(* The legacy plugin (src/src/index.ts): what the hooks make of a tool     *)
(* call.                                                                   *)
(***************************************************************************)
FILE_MODIFYING_TOOLS == {"write", "Write", "edit", "Edit", "bash", "Bash", "MultiEdit"}

SUPPORTED_EXTENSIONS == {".ts", ".tsx", ".js", ".jsx", ".py", ".go", ".rs"}

IncrementalThreshold == 20

\* s.substring(i) for the 1-based result i of lastIndexOf: the whole string
\* when there is no occurrence
substringFrom(p, i) == IF i = 0 THEN p ELSE SubSeq(p, i, Len(p))

substringFromLastDot(p) == substringFrom(p, lastIndexOf(p, "."))

\* a tool call is [tool, filePath, fileOp]: filePath is "" when the
\* arguments name no file, fileOp says that a bash command matches the
\* file-operation pattern
namedPaths(call) == IF call.filePath # "" THEN <<call.filePath>> ELSE <<>>

relativize(p) == IF isAbsolute(p) THEN relative(workspaceDir, p) ELSE p

mapRelativize(paths) == [i \in 1..Len(paths) |-> relativize(paths[i])]

supportedPath(p) ==
  substringFromLastDot(p) \in SUPPORTED_EXTENSIONS /\ ~startsWith(p, "..")

extractFilePaths(call) ==
  IF includes(toLowerCase(call.tool), "bash") /\ call.fileOp THEN <<>>
  ELSE SelectSeq(mapRelativize(namedPaths(call)), LAMBDA p : supportedPath(p))

\* the tool calls the host may report
ToolCalls ==
  { [tool |-> "edit", filePath |-> "/w/src/api/routes.ts", fileOp |-> FALSE],
    [tool |-> "edit", filePath |-> "./src/api/routes.ts", fileOp |-> FALSE],
    [tool |-> "write", filePath |-> "/w/node_modules/lib/index.js", fileOp |-> FALSE],
    [tool |-> "bash", filePath |-> "", fileOp |-> TRUE] }

\* Set.prototype.add over a list of values, in insertion order
RECURSIVE addAll(_, _)
addAll(set, items) ==
  IF items = <<>> THEN set
  ELSE addAll(IF Head(items) \in Range(set) THEN set ELSE Append(set, Head(items)),
              Tail(items))

(***************************************************************************)
(* The strings that occur in the legacy model: the paths the hooks report, *)
(* the absolute and relative forms of every path, the import sources.      *)
(* Pure string functions are tabulated over them, so that an action looks  *)
(* a result up instead of scanning the strings again.                      *)
(***************************************************************************)
modifiesFiles(call) == \E t \in FILE_MODIFYING_TOOLS : includes(call.tool, t)

hookTable ==
  [c \in ToolCalls |->
     [modifying |-> modifiesFiles(c), changedFiles |-> extractFilePaths(c)]]

ReportedPaths == UNION {Range(hookTable[c].changedFiles) : c \in ToolCalls}

fullPathTable == [q \in Files \cup ReportedPaths |-> join(workspaceDir, q)]

FullPaths == {fullPathTable[q] : q \in DOMAIN fullPathTable}

relativeTable == [fp \in FullPaths |-> relative(workspaceDir, fp)]

RelativePaths == {relativeTable[fp] : fp \in FullPaths}

normalizeTable == [q \in ReportedPaths |-> normalize(q)]

ImportSources ==
  UNION {Range(Content(p, v).imports) : p \in Files, v \in 1..MaxVersion}

(***************************************************************************)
(* JavaScript Map: a sequence of entries in insertion order.               *)
(***************************************************************************)
MapHas(m, k) == \E i \in 1..Len(m) : m[i].key = k

MapGet(m, k) == m[CHOOSE i \in 1..Len(m) : m[i].key = k].value

MapSet(m, k, v) ==
  IF MapHas(m, k)
  THEN [i \in 1..Len(m) |-> IF m[i].key = k THEN [key |-> k, value |-> v] ELSE m[i]]
  ELSE Append(m, [key |-> k, value |-> v])

MapDelete(m, k) == SelectSeq(m, LAMBDA e : e.key # k)

MapValues(m) == [i \in 1..Len(m) |-> m[i].value]

MapKeys(m) == [i \in 1..Len(m) |-> m[i].key]

(***************************************************************************)
(* CodeAnalyzer (src/src/analyzer/treesitter.ts).                          *)
(***************************************************************************)
LANGUAGE_EXTENSIONS(ext) ==
  CASE ext = ".ts" -> "typescript"
    [] ext = ".tsx" -> "tsx"
    [] ext = ".js" -> "javascript"
    [] ext = ".jsx" -> "jsx"
    [] ext = ".py" -> "python"
    [] ext = ".go" -> "go"
    [] ext = ".rs" -> "rust"
    [] OTHER -> NULL

IGNORE_DIRS ==
  {"node_modules", ".git", ".architecture", "dist", "build",
   "__pycache__", ".next", ".venv", "venv"}

\* the directory segments of a path (all but the entry name)
dirSegments(p) == sliceInit(split(p, "/"))

\* the content version a path holds, 0 when there is no such file
versionAt(fsys, rel) == IF rel \in DOMAIN fsys THEN fsys[rel] ELSE 0

\* readFile: the content version stored at an absolute path, 0 when the
\* read throws
readFile(fsys, fullPath) == versionAt(fsys, relativeTable[fullPath])

\* parseImports for the TypeScript/JavaScript family
parseImports(content) ==
  [i \in 1..Len(content.imports) |->
     [source |-> content.imports[i],
      isRelative |-> startsWith(content.imports[i], ".")
                     \/ startsWith(content.imports[i], "/")]]

\* the FileAnalysis of a file with the given language and relative path
fileAnalysis(filePath, language, relativePath, content) ==
  [path |-> filePath,
   relativePath |-> relativePath,
   language |-> language,
   imports |-> parseImports(content),
   exports |-> content.exports,
   functions |-> content.functions,
   classes |-> content.classes]

analyzeFileAs(filePath, v, language, relativePath) ==
  IF language = NULL THEN [kind |-> "null"]
  ELSE IF v = 0 THEN [kind |-> "thrown"]
  ELSE [kind |-> "file",
        file |-> fileAnalysis(filePath, language, relativePath,
                              Content(relativePath, v))]

\* analyzeFile on a file whose content has version v (0: readFile throws):
\* kind "null" for an unsupported extension, kind "thrown" when readFile
\* throws, otherwise kind "file" with the FileAnalysis
analyzeFileAt(filePath, v) ==
  analyzeFileAs(filePath, v, LANGUAGE_EXTENSIONS(extname(filePath)),
                relative(workspaceDir, filePath))

\* analyzeFile, tabulated over the paths and contents of the model
analysisTable ==
  [fp \in FullPaths |-> [v \in 0..MaxVersion |-> analyzeFileAt(fp, v)]]

analyzeFile(fsys, filePath) == analysisTable[filePath][readFile(fsys, filePath)]

\* what collectFiles keeps of a directory walk: no entry below an ignored
\* directory, only files with a known extension
walkable(p) ==
  /\ \A d \in Range(dirSegments(p)) : d \notin IGNORE_DIRS
  /\ LANGUAGE_EXTENSIONS(extname(p)) # NULL

walkTable == [p \in Files |-> walkable(p)]

fullPaths(listed) == [i \in 1..Len(listed) |-> fullPathTable[listed[i]]]

\* collectFiles: the absolute paths found by the recursive directory walk
collectFiles(fsys) ==
  fullPaths(SelectSeq(FileUniverse, LAMBDA p : fsys[p] > 0 /\ walkTable[p]))

relativeSources(imports) ==
  [i \in 1..Len(imports) |-> imports[i].source]

RECURSIVE buildDependencyGraphFrom(_, _)
buildDependencyGraphFrom(files, graph) ==
  IF files = <<>> THEN graph
  ELSE buildDependencyGraphFrom(Tail(files),
         MapSet(graph, Head(files).relativePath,
                relativeSources(SelectSeq(Head(files).imports,
                                          LAMBDA imp : imp.isRelative))))

buildDependencyGraph(files) == buildDependencyGraphFrom(files, <<>>)

\* one entry of layerPatterns: the regular expression /\/(w1|w2|...)\// finds
\* one of the words as a whole segment with a slash on either side
someInner(parts, words) == \E k \in 2..(Len(parts) - 1) : parts[k] \in words

matchesDir(path, words) == someInner(split(path, "/"), words)

layerOf(relativePath) ==
  IF matchesDir(relativePath, {"api", "route", "routes", "handler", "handlers",
                               "controller", "controllers"}) THEN "api"
  ELSE IF matchesDir(relativePath, {"service", "services", "usecase", "usecases",
                                    "domain"}) THEN "service"
  ELSE IF matchesDir(relativePath, {"model", "models", "entitie", "entities",
                                    "schema", "schemas"}) THEN "model"
  ELSE IF matchesDir(relativePath, {"util", "utils", "helper", "helpers", "lib"}) THEN "util"
  ELSE IF matchesDir(relativePath, {"component", "components", "view", "views",
                                    "page", "pages"}) THEN "ui"
  ELSE IF matchesDir(relativePath, {"test", "tests", "__tests__", "spec", "specs"}) THEN "test"
  ELSE IF matchesDir(relativePath, {"config", "setting", "settings"}) THEN "config"
  ELSE "other"

\* the paths the layer rules are studied on
LayerUniverse ==
  << "src/api/routes.ts", "src/services/user.ts", "src/models/user.ts",
     "src/api/utils/format.ts", "src/tests/config/setup.ts", "api/routes.ts",
     "src/components/App.tsx", "src/utils.ts" >>

layerTable == [p \in RelativePaths \cup Range(LayerUniverse) |-> layerOf(p)]

RECURSIVE detectLayersFrom(_, _)
detectLayersFrom(files, layerMap) ==
  IF files = <<>> THEN layerMap
  ELSE detectLayersFrom(Tail(files),
         MapSet(layerMap, Head(files).relativePath, layerTable[Head(files).relativePath]))

detectLayers(files) == detectLayersFrom(files, <<>>)

\* the CodebaseAnalysis object both analyze and analyzeIncremental build
\* (its timestamp is left out)
makeAnalysis(analyses) ==
  [files |-> analyses,
   dependencyGraph |-> buildDependencyGraph(analyses),
   layerMap |-> detectLayers(analyses)]

(***************************************************************************)
(* MdxGenerator (src/src/generator/mdx.ts).                                *)
(***************************************************************************)
resolveExtensions ==
  <<"", ".ts", ".tsx", ".js", ".jsx", "/index.ts", "/index.tsx", "/index.js">>

withExtensions(resolved) ==
  [n \in 1..Len(resolveExtensions) |-> resolved \o resolveExtensions[n]]

\* the candidates of resolveImport, in the order they are tried; none for
\* an import that does not start with "."
importCandidates(fromFile, importPath) ==
  IF ~startsWith(importPath, ".") THEN <<>>
  ELSE withExtensions(join(joinWith(dirSegments(fromFile), "/"), importPath))

\* the importing files and the import sources resolveImport is studied on
ResolveFroms == {"src/index.ts", "src/app.jsx", "main.ts"}

ResolveImports == {"./utils", "./missing", "./components", "../lib/util", "express"}

candidateTable ==
  [p \in RelativePaths \cup ResolveFroms |->
     [imp \in ImportSources \cup ResolveImports |-> importCandidates(p, imp)]]

\* the first candidate that is the relativePath of a file, else NULL
RECURSIVE firstFile(_, _)
firstFile(candidates, files) ==
  IF candidates = <<>> THEN NULL
  ELSE IF \E i \in 1..Len(files) : files[i].relativePath = Head(candidates)
       THEN Head(candidates)
  ELSE firstFile(Tail(candidates), files)

resolveImport(fromFile, importPath, files) ==
  firstFile(candidateTable[fromFile][importPath], files)

labelTable == [p \in RelativePaths |-> lastSegment(p)]

edgesTo(entry, files) ==
  [i \in 1..Len(entry.value) |->
     [source |-> entry.key,
      target |-> resolveImport(entry.key, entry.value[i], files)]]

\* the edges of one dependencyGraph entry
edgesOf(entry, files) ==
  SelectSeq(edgesTo(entry, files), LAMBDA e : e.target # NULL)

RECURSIVE edgesFrom(_, _)
edgesFrom(graph, files) ==
  IF graph = <<>> THEN <<>>
  ELSE edgesOf(Head(graph), files) \o edgesFrom(Tail(graph), files)

layerIn(layerMap, relativePath) ==
  IF MapHas(layerMap, relativePath) THEN MapGet(layerMap, relativePath) ELSE "other"

nodeOf(file, layerMap) ==
  [id |-> file.relativePath,
   label |-> labelTable[file.relativePath],
   layer |-> layerIn(layerMap, file.relativePath),
   functions |-> Len(file.functions),
   classes |-> Len(file.classes),
   exports |-> Len(file.exports)]

\* generateDependencyData: the document written to graph.json
generateDependencyData(analysis) ==
  [nodes |-> [i \in 1..Len(analysis.files) |->
                nodeOf(analysis.files[i], analysis.layerMap)],
   edges |-> edgesFrom(analysis.dependencyGraph, analysis.files)]

VARIABLES
  fs,              \* file system: path -> content version (0: absent)
  edits,           \* number of file-system edits so far
  notifs,          \* number of hook calls so far
  lastAnalysis,    \* CodeAnalyzer.lastAnalysis under SpecLegacy, the plugin's
                   \* lastAnalysis under SpecPlugin: <<>> or <<analysis>>
  pendingFiles,    \* index.ts pendingFiles, in insertion order
  debounceTimer,   \* TRUE while a debounce timeout is pending
  initialPending,  \* TRUE until the setImmediate callback has run
  passes,          \* the analysis passes started so far
  fileCache,       \* CodeAnalyzer.fileCache
  graphJson,       \* the contents of .architecture/graph.json: <<>> or <<doc>>
  broadcasted,     \* the analysis of the last broadcastUpdate: <<>> or <<analysis>>
  dirty,           \* history: paths edited since the last pass that covered them
  staleSignal      \* history: a trigger without paths is in the pending batch

VARIABLES
  more,            \* number of generated source files the workspace also holds
  startup,         \* how far the setImmediate callback of the plugin has come
  inbox,           \* messages posted to the worker, not yet dispatched
  jobs,            \* the worker's onmessage invocations
  resultQueue,     \* results posted by the worker, not yet dispatched
  handlers,        \* main-thread async functions waiting for a file write
  currentDiagrams, \* the plugin's currentDiagrams: <<>> or <<DiagramSet>>
  analysisJson,    \* the contents of .architecture/analysis.json
  diagramsJson,    \* the contents of .architecture/diagrams.json
  broadcasts,      \* the messages broadcast to the clients, in order
  errorLog,        \* what logError and the runtime reported, in order
  toolCalls,       \* number of diagram tool calls so far
  reply            \* what the last diagram tool call returned: <<>> or <<result>>

VARIABLES
  argument,        \* the arguments of the function under study: <<>> or <<args>>
  returned         \* what the function returned for them: <<>> or <<value>>

VARIABLES
  isInitialized,         \* part_011 isInitialized
  initializingDirectory, \* part_011 initializingDirectory, "" for null
  globalServer,          \* part_011 globalServer: 0 for null, else the server
  globalWorker,          \* part_011 globalWorker: 0 for null, else the worker
  startups,              \* the setImmediate callbacks of the plugin calls
  liveServers,           \* the servers started and not stopped
  liveWorkers            \* the workers created and not terminated

lifecycleVars == <<isInitialized, initializingDirectory, globalServer, globalWorker,
                   startups, liveServers, liveWorkers>>

legacyVars == <<pendingFiles, debounceTimer, initialPending, passes, fileCache,
                graphJson, broadcasted, dirty, staleSignal>>

pluginVars == <<more, startup, inbox, jobs, resultQueue, handlers, currentDiagrams,
                analysisJson, diagramsJson, broadcasts, errorLog, toolCalls, reply,
                lifecycleVars>>

pureVars == <<argument, returned>>

vars == <<fs, edits, notifs, lastAnalysis, legacyVars, pluginVars, pureVars>>

(***************************************************************************)
(* Analysis passes of the legacy plugin.  A pass is the async timer        *)
(* callback of triggerReanalysis (or the setImmediate callback) together   *)
(* with the CodeAnalyzer call it awaits.  The fields cover and during are  *)
(* history: cover says that the pass ran alone, on an unedited file system *)
(* and over a change set naming every edited path; during collects the     *)
(* paths that were reported while the pass was running.                    *)
(***************************************************************************)
DonePass ==
  [mode |-> "done", stage |-> "done", todo |-> <<>>, analyses |-> <<>>,
   result |-> <<>>, cover |-> FALSE, during |-> {}]

Running(i) == passes[i].stage # "done"

RunningPasses == {i \in 1..Len(passes) : Running(i)}

\* a pass that forgets the batch it was started for
newPassWithoutBatch(mode, todo, cover) ==
  [mode |-> mode, stage |-> IF mode = "incremental" THEN "analyze" ELSE "collect",
   todo |-> <<>>, analyses |-> <<>>, result |-> <<>>, cover |-> cover, during |-> {}]

newPass(mode, todo, cover) ==
  [mode |-> mode, stage |-> IF mode = "incremental" THEN "analyze" ELSE "collect",
   todo |-> todo, analyses |-> <<>>, result |-> <<>>, cover |-> cover, during |-> {}]

canonical(paths) == {normalizeTable[paths[i]] : i \in 1..Len(paths)}

\* a file is deleted (v = 0), or created or rewritten with its next content
FsEdit(p, v) ==
  /\ edits < MaxEdits
  /\ v # fs[p]
  /\ v \in {0, fs[p] + 1}
  /\ fs' = [fs EXCEPT ![p] = v]
  /\ edits' = edits + 1
  /\ dirty' = dirty \cup {p}
  /\ passes' = [i \in 1..Len(passes) |->
                  IF Running(i) THEN [passes[i] EXCEPT !.cover = FALSE] ELSE passes[i]]
  /\ UNCHANGED <<notifs, pendingFiles, debounceTimer, initialPending, fileCache,
                 lastAnalysis, graphJson, broadcasted, staleSignal,
                 pluginVars, pureVars>>

\* triggerReanalysis up to setTimeout: batch the paths, restart the timer
triggerReanalysis(changedFiles) ==
  /\ pendingFiles' = addAll(pendingFiles, changedFiles)
  /\ debounceTimer' = TRUE
  /\ staleSignal' = (staleSignal \/ changedFiles = <<>>)
  /\ passes' = [i \in 1..Len(passes) |->
                  IF Running(i)
                  THEN [passes[i] EXCEPT !.during = @ \cup Range(changedFiles)]
                  ELSE passes[i]]

\* the tool.execute.after hook
ToolExecuteAfter(call) ==
  /\ ~initialPending
  /\ notifs < MaxNotifs
  /\ hookTable[call].modifying
  /\ notifs' = notifs + 1
  /\ triggerReanalysis(hookTable[call].changedFiles)
  /\ UNCHANGED <<fs, edits, initialPending, fileCache, lastAnalysis, graphJson,
                 broadcasted, dirty, pluginVars,
                 pureVars>>

\* the chat.message hook when the last analysis is older than ten minutes
ChatMessageStale ==
  /\ ~initialPending
  /\ notifs < MaxNotifs
  /\ notifs' = notifs + 1
  /\ triggerReanalysis(<<>>)
  /\ UNCHANGED <<fs, edits, initialPending, fileCache, lastAnalysis, graphJson,
                 broadcasted, dirty, pluginVars,
                 pureVars>>

\* the setImmediate callback starts the initial full analysis; it runs
\* before the host can call a hook
InitialAnalysis ==
  /\ initialPending
  /\ Len(passes) < MaxPasses
  /\ initialPending' = FALSE
  /\ passes' = Append(passes, newPass("initial", <<>>, RunningPasses = {}))
  /\ UNCHANGED <<fs, edits, notifs, pendingFiles, debounceTimer, fileCache,
                 lastAnalysis, graphJson, broadcasted, dirty, staleSignal,
                 pluginVars, pureVars>>

useIncremental(filesToAnalyze) ==
  Len(filesToAnalyze) > 0 /\ Len(filesToAnalyze) <= IncrementalThreshold

\* the debounce timeout fires: take the batch and choose the mode
TimerFire ==
  /\ debounceTimer
  /\ Len(passes) < MaxPasses
  /\ debounceTimer' = FALSE
  /\ pendingFiles' = <<>>
  /\ staleSignal' = FALSE
  /\ passes' = Append(passes,
       IF useIncremental(pendingFiles)
       THEN newPass("incremental", pendingFiles,
                    RunningPasses = {} /\ dirty \subseteq canonical(pendingFiles))
       ELSE newPass("full", <<>>, RunningPasses = {}))
  /\ UNCHANGED <<fs, edits, notifs, initialPending, fileCache, lastAnalysis,
                 graphJson, broadcasted, dirty, pluginVars,
                 pureVars>>

\* the end of analyze / analyzeIncremental: publish lastAnalysis and go on
\* to generator.generate
finishPass(i, pass, cache, analyses) ==
  /\ lastAnalysis' = <<makeAnalysis(analyses)>>
  /\ fileCache' = cache
  /\ passes' = [passes EXCEPT ![i] =
                  [pass EXCEPT !.stage = "generate", !.analyses = <<>>,
                               !.result = lastAnalysis']]
  /\ dirty' = IF pass.cover THEN {} ELSE dirty

collected(i, files) ==
  IF files = <<>>
  THEN finishPass(i, passes[i], fileCache, <<>>)
  ELSE /\ passes' = [passes EXCEPT ![i] =
                       [passes[i] EXCEPT !.stage = "analyze", !.todo = files]]
       /\ UNCHANGED <<fileCache, lastAnalysis, dirty>>

\* analyze after collectFiles has listed the workspace
PassCollect(i) ==
  /\ i \in 1..Len(passes)
  /\ passes[i].stage = "collect"
  /\ collected(i, collectFiles(fs))
  /\ UNCHANGED <<fs, edits, notifs, pendingFiles, debounceTimer, initialPending,
                 graphJson, broadcasted, staleSignal,
                 pluginVars, pureVars>>

\* a loop that puts the newest record in front
analyzedInFront(pass, cache, r) ==
  IF r.kind = "file"
  THEN [analyses |-> <<r.file>> \o pass.analyses,
        cache |-> MapSet(cache, r.file.relativePath, r.file)]
  ELSE [analyses |-> pass.analyses, cache |-> cache]

\* analyze: the file is pushed and cached under its relativePath
analyzed(pass, cache, r) ==
  IF r.kind = "file"
  THEN [analyses |-> Append(pass.analyses, r.file),
        cache |-> MapSet(cache, r.file.relativePath, r.file)]
  ELSE [analyses |-> pass.analyses, cache |-> cache]

\* analyzeIncremental: the cache entry of the path as it was reported is
\* set, or deleted when analyzeFile returns null or throws
analyzedIncremental(pass, cache, relativePath, r) ==
  [analyses |-> <<>>,
   cache |-> IF r.kind = "file" THEN MapSet(cache, relativePath, r.file)
             ELSE MapDelete(cache, relativePath)]

looped(i, pass, incremental, got) ==
  IF Tail(pass.todo) = <<>>
  THEN finishPass(i, [pass EXCEPT !.todo = <<>>], got.cache,
                  IF incremental THEN MapValues(got.cache) ELSE got.analyses)
  ELSE /\ passes' = [passes EXCEPT ![i] =
                       [pass EXCEPT !.todo = Tail(pass.todo),
                                    !.analyses = got.analyses]]
       /\ fileCache' = got.cache
       /\ UNCHANGED <<lastAnalysis, dirty>>

\* one iteration of the loop of analyze or analyzeIncremental: the code
\* after an await of analyzeFile, up to the next await
PassAnalyzeFile(i) ==
  /\ i \in 1..Len(passes)
  /\ passes[i].stage = "analyze"
  /\ passes[i].todo # <<>>
  /\ IF passes[i].mode = "incremental"
     THEN looped(i, passes[i], TRUE,
                 analyzedIncremental(passes[i], fileCache, Head(passes[i].todo),
                   analyzeFile(fs, fullPathTable[Head(passes[i].todo)])))
     ELSE looped(i, passes[i], FALSE,
                 analyzed(passes[i], fileCache,
                          analyzeFile(fs, Head(passes[i].todo))))
  /\ UNCHANGED <<fs, edits, notifs, pendingFiles, debounceTimer, initialPending,
                 graphJson, broadcasted, staleSignal,
                 pluginVars, pureVars>>

\* generator.generate writes graph.json; the callback then broadcasts and ends
PassGenerate(i) ==
  /\ i \in 1..Len(passes)
  /\ passes[i].stage = "generate"
  /\ graphJson' = <<generateDependencyData(passes[i].result[1])>>
  /\ broadcasted' = IF passes[i].mode = "initial" THEN passes[i].result ELSE lastAnalysis
  /\ passes' = [passes EXCEPT ![i] = DonePass]
  /\ UNCHANGED <<fs, edits, notifs, pendingFiles, debounceTimer, initialPending,
                 fileCache, lastAnalysis, dirty, staleSignal,
                 pluginVars, pureVars>>

\* no plugin call has been made
InitLifecycle ==
  /\ isInitialized = FALSE
  /\ initializingDirectory = ""
  /\ globalServer = 0
  /\ globalWorker = 0
  /\ startups = <<>>
  /\ liveServers = {}
  /\ liveWorkers = {}

InitPluginIdle ==
  /\ InitLifecycle
  /\ more = 0
  /\ startup = "pending"
  /\ inbox = <<>>
  /\ jobs = <<>>
  /\ resultQueue = <<>>
  /\ handlers = <<>>
  /\ currentDiagrams = <<>>
  /\ analysisJson = <<>>
  /\ diagramsJson = <<>>
  /\ broadcasts = <<>>
  /\ errorLog = <<>>
  /\ toolCalls = 0
  /\ reply = <<>>

InitPure ==
  /\ argument = <<>>
  /\ returned = <<>>

InitLegacy ==
  /\ fs = [p \in Files |-> 1]
  /\ edits = 0
  /\ notifs = 0
  /\ pendingFiles = <<>>
  /\ debounceTimer = FALSE
  /\ initialPending = TRUE
  /\ passes = <<>>
  /\ fileCache = <<>>
  /\ lastAnalysis = <<>>
  /\ graphJson = <<>>
  /\ broadcasted = <<>>
  /\ dirty = Files
  /\ staleSignal = FALSE
  /\ InitPluginIdle
  /\ InitPure

NextLegacy ==
  \/ \E p \in Files, v \in 0..MaxVersion : FsEdit(p, v)
  \/ \E call \in ToolCalls : ToolExecuteAfter(call)
  \/ ChatMessageStale
  \/ InitialAnalysis
  \/ TimerFire
  \/ \E i \in 1..MaxPasses : PassCollect(i)
  \/ \E i \in 1..MaxPasses : PassAnalyzeFile(i)
  \/ \E i \in 1..MaxPasses : PassGenerate(i)

SpecLegacy == InitLegacy /\ [][NextLegacy]_vars

(***************************************************************************)
(* The analysis worker (src/src/worker/analyzer.worker.ts).  Beside the    *)
(* files of FileUniverse the workspace may hold a number of generated      *)
(* source files in a directory "generated"; they are counted, not listed:  *)
(* each is a file without imports in layer "other".                        *)
(***************************************************************************)
WORKER_IGNORE_DIRS ==
  {"node_modules", ".git", ".architecture", "dist", "build",
   "__pycache__", ".next", ".venv", "venv", ".cache"}

EXTENSIONS(ext) ==
  CASE ext = ".ts" -> "typescript"
    [] ext = ".tsx" -> "tsx"
    [] ext = ".js" -> "javascript"
    [] ext = ".jsx" -> "jsx"
    [] ext = ".py" -> "python"
    [] ext = ".go" -> "go"
    [] ext = ".rs" -> "rust"
    [] OTHER -> NULL

\* the first occurrence of t in s, found at position i (0: none), replaced
replaceAt(s, t, r, i) ==
  IF i = 0 THEN s
  ELSE SubSeq(s, 1, i - 1) \o r \o SubSeq(s, i + Len(t), Len(s))

\* String.prototype.replace with a string pattern
replace(s, t, r) == replaceAt(s, t, r, indexOf(s, t))

\* the walk skips every entry whose name starts with "." or is ignored
entryKept(name) == ~startsWith(name, ".") /\ name \notin WORKER_IGNORE_DIRS

workerWalkable(p) ==
  /\ \A name \in Range(split(p, "/")) : entryKept(name)
  /\ EXTENSIONS(extname(lastSegment(p))) # NULL

\* what the walk pushes for a file: its full path without the base
workerListed(p) == replace(join(workspaceDir, p), workspaceDir \o "/", "")

workerWalkTable ==
  [p \in Files |-> [kept |-> workerWalkable(p), listed |-> workerListed(p)]]

listedPaths(kept) == [i \in 1..Len(kept) |-> workerWalkTable[kept[i]].listed]

\* collectFiles of the worker: paths relative to the workspace
workerCollectFiles(fsys) ==
  listedPaths(SelectSeq(FileUniverse, LAMBDA p : fsys[p] > 0 /\ workerWalkTable[p].kept))

\* the tool.execute.after hook of the worker based plugin
fileModifyingTools == {"write", "Write", "edit", "Edit", "MultiEdit"}

pluginModifying(call) == \E t \in fileModifyingTools : includes(call.tool, t)

pluginHookTable ==
  [c \in ToolCalls |-> pluginModifying(c) /\ c.filePath # ""]

\* the paths the worker is given: those it lists and those the hook passes on
WorkerPaths ==
  {workerWalkTable[p].listed : p \in Files}
    \cup {c.filePath : c \in {d \in ToolCalls : pluginHookTable[d]}}

\* one entry of LAYER_PATTERNS: the case-insensitive regular expression
\* /\/(w1|w2|...)\//i on "/" + path finds one of the words as a whole
\* directory segment
someLeading(parts, words) ==
  \E k \in 1..(Len(parts) - 1) : toLowerCase(parts[k]) \in words

workerMatches(path, words) == someLeading(split(path, "/"), words)

detectLayer(path) ==
  IF workerMatches(path, {"api", "routes", "handlers", "controllers"}) THEN "api"
  ELSE IF workerMatches(path, {"service", "services", "usecase", "usecases"}) THEN "service"
  ELSE IF workerMatches(path, {"model", "models", "entities", "schema", "schemas",
                               "type", "types"}) THEN "model"
  ELSE IF workerMatches(path, {"util", "utils", "helper", "helpers", "lib"}) THEN "util"
  ELSE IF workerMatches(path, {"component", "components", "view", "views",
                               "page", "pages", "ui"}) THEN "ui"
  ELSE IF workerMatches(path, {"config", "settings"}) THEN "config"
  ELSE IF workerMatches(path, {"test", "tests", "__tests__", "spec"}) THEN "test"
  ELSE "other"

orUnknown(language) == IF language = NULL THEN "unknown" ELSE language

\* the FileInfo of a readable file
fileInfo(relativePath, content) ==
  [path |-> relativePath,
   language |-> orUnknown(EXTENSIONS(extname(relativePath))),
   layer |-> detectLayer(relativePath),
   imports |-> content.imports,
   exports |-> content.exports,
   functions |-> content.functions,
   classes |-> content.classes]

\* the file a path names once it is joined to the workspace directory
workerKey(relativePath) == relative(workspaceDir, join(workspaceDir, relativePath))

workerKeyTable == [q \in WorkerPaths |-> workerKey(q)]

\* analyzeFile of the worker on a file whose content has version v
\* (0: readFile throws and the function returns null)
workerAnalyzeFileAt(relativePath, v) ==
  IF v = 0 THEN [kind |-> "null"]
  ELSE [kind |-> "file",
        file |-> fileInfo(relativePath, Content(workerKeyTable[relativePath], v))]

workerAnalysisTable ==
  [q \in WorkerPaths |-> [v \in 0..MaxVersion |-> workerAnalyzeFileAt(q, v)]]

workerAnalyzeFile(fsys, relativePath) ==
  workerAnalysisTable[relativePath][versionAt(fsys, workerKeyTable[relativePath])]

\* a counter object: layers[layer] = (layers[layer] || 0) + n
MapCount(m, k) == IF MapHas(m, k) THEN MapGet(m, k) ELSE 0

MapAdd(m, k, n) == MapSet(m, k, MapCount(m, k) + n)

RECURSIVE countLayersFrom(_, _)
countLayersFrom(files, layers) ==
  IF files = <<>> THEN layers
  ELSE countLayersFrom(Tail(files), MapAdd(layers, Head(files).layer, 1))

\* the layers object of a result over the listed files and n generated ones
countLayers(files, n) ==
  IF n = 0 THEN countLayersFrom(files, <<>>)
  ELSE MapAdd(countLayersFrom(files, <<>>), "other", n)

skipDirs == {"src", "lib", "app", "internal", "pkg", "cmd"}

\* the first directory segment that is not skipped, else "root"
RECURSIVE firstDomain(_)
firstDomain(dirs) ==
  IF dirs = <<>> THEN "root"
  ELSE IF Head(dirs) \notin skipDirs /\ ~startsWith(Head(dirs), "_") THEN Head(dirs)
  ELSE firstDomain(Tail(dirs))

domainOf(path) == firstDomain(sliceInit(split(path, "/")))

\* the paths the domain rules are studied on
DomainUniverse ==
  << "src/auth/utils/hash.ts", "src/auth/api/login.ts", "src/auth/api/logout.ts",
     "src/billing/invoice.ts",
     "lib/_internal/core/a.ts", "lib/_internal/core/b.ts",
     ".github/scripts/a.ts", ".github/scripts/b.ts", "main.ts" >>

\* the files the generated diagrams are studied on, in walk order
DiagramUniverse ==
  << "src/api/client.ts", "src/api/server.ts", "src/components/App.tsx",
     "src/config/env.ts", "src/main.ts", "src/models/user.ts",
     "src/services/user.ts", "src/tests/user.test.ts", "src/utils/format.ts" >>

StudiedPaths == WorkerPaths \cup Range(DomainUniverse) \cup Range(DiagramUniverse)

domainTable == [q \in StudiedPaths |-> domainOf(q)]

\* domainMap with the layer counts of each domain's files, in insertion
\* order
RECURSIVE domainMapFrom(_, _)
domainMapFrom(files, domainMap) ==
  IF files = <<>> THEN domainMap
  ELSE domainMapFrom(Tail(files),
         MapSet(domainMap, domainTable[Head(files).path],
                MapAdd(IF MapHas(domainMap, domainTable[Head(files).path])
                       THEN MapGet(domainMap, domainTable[Head(files).path])
                       ELSE <<>>,
                       Head(files).layer, 1)))

domainMapOf(files, n) ==
  IF n = 0 THEN domainMapFrom(files, <<>>)
  ELSE MapSet(domainMapFrom(files, <<>>), "generated", <<[key |-> "other", value |-> n]>>)

RECURSIVE sumValues(_)
sumValues(m) == IF m = <<>> THEN 0 ELSE Head(m).value + sumValues(Tail(m))

\* Array.prototype.sort by descending rank: stable
insertDesc(sorted, e, k) == SubSeq(sorted, 1, k) \o <<e>> \o SubSeq(sorted, k + 1, Len(sorted))

notBelow(sorted, rank) == Cardinality({i \in 1..Len(sorted) : sorted[i].rank >= rank})

sortedInsert(sorted, e) == insertDesc(sorted, e, notBelow(sorted, e.rank))

RECURSIVE sortDesc(_)
sortDesc(s) ==
  IF s = <<>> THEN <<>> ELSE sortedInsert(sortDesc(sliceInit(s)), pop(s))

ranked(s, Rank(_)) == [i \in 1..Len(s) |-> [rank |-> Rank(s[i]), item |-> s[i]]]

items(s) == [i \in 1..Len(s) |-> s[i].item]

\* the layer most files of a domain lie in, the first such layer on a tie
topLayer(layerCounts) ==
  items(sortDesc(ranked(layerCounts, LAMBDA e : e.value)))[1].key

domainInfo(entry) ==
  [name |-> entry.key, fileCount |-> sumValues(entry.value), layer |-> topLayer(entry.value)]

domainInfos(entries) == [i \in 1..Len(entries) |-> domainInfo(entries[i])]

slice(s, n) == SubSeq(s, 1, IF Len(s) < n THEN Len(s) ELSE n)

\* detectDomains over the listed files and n generated ones
detectDomains(files, n) ==
  slice(items(sortDesc(ranked(
          domainInfos(SelectSeq(domainMapOf(files, n),
                                LAMBDA e : sumValues(e.value) >= 2)),
          LAMBDA d : d.fileCount))), 10)

\* the result the worker posts
makeResult(files, n) ==
  [files |-> files,
   more |-> n,
   layers |-> countLayers(files, n),
   domains |-> detectDomains(files, n)]

\* analysis.files.length
fileCount(analysis) == Len(analysis.files) + analysis.more

(***************************************************************************)
(* The diagram module (src/unnamed/part_010).  Mermaid markup is a string; *)
(* the icons of the source are written as ASCII names.                     *)
(***************************************************************************)
DIAGRAM_TYPES ==
  {"architecture", "dataflow", "sequence", "class", "dependency", "er", "state"}

typeLabel(type) ==
  CASE type = "architecture" -> "Architecture Overview"
    [] type = "dataflow" -> "Data Flow"
    [] type = "sequence" -> "Key Sequences"
    [] type = "class" -> "Class Diagram"
    [] type = "dependency" -> "Dependencies"
    [] type = "er" -> "Entity Relationships"
    [] type = "state" -> "State Machine"

mapTypeToCategory(type) ==
  CASE type = "architecture" -> "architecture"
    [] type = "dataflow" -> "flows"
    [] type = "sequence" -> "flows"
    [] type = "class" -> "patterns"
    [] type = "dependency" -> "dependencies"
    [] type = "er" -> "patterns"
    [] type = "state" -> "flows"
    [] OTHER -> "architecture"

layerIcons(layer) ==
  CASE layer = "api" -> "(globe)"
    [] layer = "service" -> "(gear)"
    [] layer = "model" -> "(chart)"
    [] layer = "ui" -> "(palette)"
    [] layer = "util" -> "(wrench)"
    [] layer = "config" -> "(gear)"
    [] layer = "test" -> "(tube)"
    [] OTHER -> "(folder)"

layerColors(layer) ==
  CASE layer = "api" -> "#3b82f6"
    [] layer = "service" -> "#10b981"
    [] layer = "model" -> "#f59e0b"
    [] layer = "ui" -> "#8b5cf6"
    [] layer = "util" -> "#6b7280"
    [] OTHER -> NULL

layerOrder == <<"api", "service", "model", "ui", "util", "config", "test", "other">>

\* Array.prototype.indexOf: 0-based, -1 when absent
RECURSIVE arrayIndexFrom(_, _, _)
arrayIndexFrom(s, x, i) ==
  IF i > Len(s) THEN -1 ELSE IF s[i] = x THEN i - 1 ELSE arrayIndexFrom(s, x, i + 1)

arrayIndexOf(s, x) == arrayIndexFrom(s, x, 1)

\* the entries of analysis.layers with files, by ascending layerOrder index
sortedLayers(layers) ==
  items(sortDesc(ranked(SelectSeq(layers, LAMBDA e : e.value > 0),
                        LAMBDA e : 0 - arrayIndexOf(layerOrder, e.key))))

\* layer.charAt(0).toUpperCase() + layer.slice(1)
capitalize(layer) == upperChar(SubSeq(layer, 1, 1)) \o SubSeq(layer, 2, Len(layer))

RECURSIVE concat(_)
concat(strings) == IF strings = <<>> THEN "" ELSE Head(strings) \o concat(Tail(strings))

boxLine(id, icon, name, count) ==
  "    " \o id \o "[\"" \o icon \o " " \o name \o "<br/>" \o ToString(count)
    \o " files\"]\n"

layerBox(entry) ==
  boxLine(capitalize(entry.key), layerIcons(entry.key), capitalize(entry.key), entry.value)

arrow(from, to) == "    " \o from \o " --> " \o to \o "\n"

\* the arrows between two layers that are neighbours in the sorted list
adjacent(from, to) ==
  (IF from \in {"Ui", "Api"} /\ to \in {"Service", "Api"} THEN arrow(from, to) ELSE "")
    \o (IF from = "Service" /\ to \in {"Model", "Util"} THEN arrow(from, to) ELSE "")

styleLine(id, color) ==
  IF color = NULL THEN "" ELSE "    style " \o id \o " fill:" \o color \o ",color:#fff\n"

layerMermaid(sorted) ==
  "graph TD\n"
    \o concat([i \in 1..Len(sorted) |-> layerBox(sorted[i])])
    \o concat([i \in 1..(Len(sorted) - 1) |->
                 adjacent(capitalize(sorted[i].key), capitalize(sorted[i + 1].key))])
    \o concat([i \in 1..Len(sorted) |->
                 styleLine(capitalize(sorted[i].key), layerColors(sorted[i].key))])

layerOverview(sorted, files) ==
  IF sorted = <<>> THEN <<>>
  ELSE <<[id |-> "layer-overview",
          category |-> "layers",
          title |-> "Layer Architecture",
          description |-> ToString(files) \o " files across "
                            \o ToString(Len(sorted)) \o " layers",
          mermaid |-> layerMermaid(sorted),
          labels |-> <<"architecture", "layers", "auto">>,
          priority |-> 100]>>

alphanumeric == "abcdefghijklmnopqrstuvwxyzABCDEFGHIJKLMNOPQRSTUVWXYZ0123456789"

\* name.replace(/[^a-zA-Z0-9]/g, "")
RECURSIVE stripNonAlnum(_)
stripNonAlnum(name) ==
  IF name = "" THEN ""
  ELSE (IF includes(alphanumeric, SubSeq(name, 1, 1)) THEN SubSeq(name, 1, 1) ELSE "")
       \o stripNonAlnum(SubSeq(name, 2, Len(name)))

domainBox(domain) ==
  boxLine(stripNonAlnum(domain.name), layerIcons(domain.layer), domain.name,
          domain.fileCount)

weakArrow(a, b) ==
  IF a.layer # b.layer
  THEN "    " \o stripNonAlnum(a.name) \o " -.-> " \o stripNonAlnum(b.name) \o "\n"
  ELSE ""

domainMermaid(topDomains) ==
  "graph LR\n"
    \o concat([i \in 1..Len(topDomains) |-> domainBox(topDomains[i])])
    \o concat([i \in 1..(Len(topDomains) - 1) |->
                 weakArrow(topDomains[i], topDomains[i + 1])])

domainOverview(domains) ==
  IF domains = <<>> THEN <<>>
  ELSE <<[id |-> "domain-overview",
          category |-> "domains",
          title |-> "Domain Structure",
          description |-> ToString(Len(domains)) \o " domains detected",
          mermaid |-> domainMermaid(slice(domains, 6)),
          labels |-> <<"domains", "structure", "auto">>,
          priority |-> 90]>>

\* base.replace(/\.[^.]+$/, "") for the position i of the last dot of base
withoutExtension(base, i) ==
  IF i = 0 \/ i = Len(base) THEN base ELSE SubSeq(base, 1, i - 1)

\* f.path.split("/").pop().replace(/\.[^.]+$/, "")
stem(path) == withoutExtension(lastSegment(path), lastIndexOf(lastSegment(path), "."))

stemTable == [q \in StudiedPaths |-> stem(q)]

\* analysis.files.find(f => imp.includes(stem of f.path)): <<>> or <<file>>
RECURSIVE findTarget(_, _)
findTarget(files, imp) ==
  IF files = <<>> THEN <<>>
  ELSE IF includes(imp, stemTable[Head(files).path]) THEN <<Head(files)>>
  ELSE findTarget(Tail(files), imp)

\* Set.prototype.add on a set kept in insertion order
setAdd(set, x) == IF x \in Range(set) THEN set ELSE Append(set, x)

addDependency(layerDeps, fromLayer, target) ==
  IF target # <<>> /\ target[1].layer # fromLayer
  THEN MapSet(layerDeps, fromLayer,
              setAdd(IF MapHas(layerDeps, fromLayer) THEN MapGet(layerDeps, fromLayer)
                     ELSE <<>>,
                     target[1].layer))
  ELSE layerDeps

RECURSIVE importsInto(_, _, _, _)
importsInto(imports, fromLayer, files, layerDeps) ==
  IF imports = <<>> THEN layerDeps
  ELSE importsInto(Tail(imports), fromLayer, files,
         IF startsWith(Head(imports), ".")
         THEN addDependency(layerDeps, fromLayer, findTarget(files, Head(imports)))
         ELSE layerDeps)

RECURSIVE layerDepsFrom(_, _, _)
layerDepsFrom(todo, files, layerDeps) ==
  IF todo = <<>> THEN layerDeps
  ELSE layerDepsFrom(Tail(todo), files,
         importsInto(Head(todo).imports, Head(todo).layer, files, layerDeps))

RECURSIVE addEach(_, _)
addEach(set, xs) == IF xs = <<>> THEN set ELSE addEach(setAdd(set, Head(xs)), Tail(xs))

RECURSIVE allLayersOf(_, _)
allLayersOf(layerDeps, set) ==
  IF layerDeps = <<>> THEN set
  ELSE allLayersOf(Tail(layerDeps),
                   addEach(setAdd(set, Head(layerDeps).key), Head(layerDeps).value))

circle(layer) == "    " \o capitalize(layer) \o "((" \o capitalize(layer) \o "))\n"

arrowsOf(entry) ==
  concat([i \in 1..Len(entry.value) |->
            arrow(capitalize(entry.key), capitalize(entry.value[i]))])

circles(layers) == concat([i \in 1..Len(layers) |-> circle(layers[i])])

dependencyMermaid(layerDeps) ==
  "graph LR\n"
    \o circles(allLayersOf(layerDeps, <<>>))
    \o concat([i \in 1..Len(layerDeps) |-> arrowsOf(layerDeps[i])])

layerDependencies(layerDeps) ==
  IF layerDeps = <<>> THEN <<>>
  ELSE <<[id |-> "layer-dependencies",
          category |-> "dependencies",
          title |-> "Layer Dependencies",
          description |-> "How layers depend on each other",
          mermaid |-> dependencyMermaid(layerDeps),
          labels |-> <<"dependencies", "layers", "auto">>,
          priority |-> 80]>>

generateDiagramsFromAnalysis(analysis) ==
  layerOverview(sortedLayers(analysis.layers), fileCount(analysis))
    \o domainOverview(analysis.domains)
    \o layerDependencies(layerDepsFrom(analysis.files, analysis.files, <<>>))

\* description || `Generated ${type} diagram` for an optional description
descriptionOr(description, type) ==
  IF description = <<>> \/ description[1] = ""
  THEN "Generated " \o type \o " diagram" ELSE description[1]

typePriority(type) ==
  IF type = "architecture" THEN 95 ELSE IF type = "dataflow" THEN 90 ELSE 75

createDiagramRecord(type, mermaid, description) ==
  [id |-> type,
   category |-> mapTypeToCategory(type),
   title |-> typeLabel(type),
   description |-> descriptionOr(description, type),
   mermaid |-> mermaid,
   labels |-> <<type, "generated">>,
   priority |-> typePriority(type)]

\* the new record is put in front of every existing one
mergeKeepingAll(newDiagram, existingDiagrams) == <<newDiagram>> \o existingDiagrams

mergeDiagrams(newDiagram, existingDiagrams) ==
  <<newDiagram>> \o SelectSeq(existingDiagrams, LAMBDA d : d.id # newDiagram.id)

(***************************************************************************)
(* The worker based plugin (src/unnamed/part_011).                         *)
(***************************************************************************)
MAX_FILES_LIMIT == 10000

\* a result one file short of the next larger size passes the check
exceedsLimitOffByOne(analysis) == fileCount(analysis) > MAX_FILES_LIMIT + 1

\* analysis.files.length > MAX_FILES_LIMIT
exceedsLimit(analysis) == fileCount(analysis) > MAX_FILES_LIMIT

\* a DiagramSet with the records in the order given
diagramSetUnsorted(diagrams) ==
  [diagrams |-> diagrams, summary |-> ToString(Len(diagrams)) \o " diagrams"]

\* the DiagramSet saveDiagrams builds (its time stamps are left out)
diagramSetOf(diagrams) ==
  [diagrams |-> items(sortDesc(ranked(diagrams, LAMBDA d : d.priority))),
   summary |-> ToString(Len(diagrams)) \o " diagrams"]

\* set?.diagrams || [] for an optional DiagramSet
diagramsIn(set) == IF set = <<>> THEN <<>> ELSE set[1].diagrams

existingDiagrams == diagramsIn(currentDiagrams)

isAuto(d) == "auto" \in Range(d.labels)

\* every record of the current set is carried over
existingWithAuto == existingDiagrams

existingNonAuto == SelectSeq(existingDiagrams, LAMBDA d : ~isAuto(d))

removeAt(s, i) == SubSeq(s, 1, i - 1) \o SubSeq(s, i + 1, Len(s))

updateBroadcast(reason) == [type |-> "update", reason |-> reason, data |-> <<>>]

analysisBroadcast(analysis) == [type |-> "analysis", reason |-> "", data |-> analysis]

(***************************************************************************)
(* Actions of the worker based plugin.  A handler is an async function of  *)
(* the main thread that waits for a file write; a job is an invocation of  *)
(* the worker's onmessage.                                                 *)
(***************************************************************************)
BulkFiles == 9999

MaxPosts == 1

MaxToolCalls == 1

MaxFailures == 1

analyzeMessage(full, files) == [full |-> full, files |-> files]

newJob(stage, todo) == [stage |-> stage, todo |-> todo, files |-> <<>>, bulk |-> 0]

\* result is what the diagram tool returns once its write is done
newHandler(kind, stage, analysis, set, result) ==
  [kind |-> kind, stage |-> stage, analysis |-> analysis, set |-> set,
   result |-> result]

toolResult(success, detail) == [success |-> success, detail |-> detail]

failures == Cardinality({i \in 1..Len(errorLog) : errorLog[i] # "limit"})

\* a diagram set that an earlier session left in diagrams.json
persistedDiagrams ==
  diagramSetOf(layerOverview(<<[key |-> "other", value |-> 1]>>, 1)
                 \o <<createDiagramRecord("class", "classDiagram", <<"types">>)>>)

UpdateInputs ==
  { [type |-> "architecture", mermaid |-> "flowchart TD", description |-> <<"overview">>],
    [type |-> "class", mermaid |-> "classDiagram\n  class User", description |-> <<"">>],
    [type |-> "sequence", mermaid |-> "sequenceDiagram", description |-> <<>>],
    [type |-> "state", mermaid |-> "", description |-> <<"states">>] }

DeleteIds == {"class", "missing"}

\* loadExistingDiagrams in the setImmediate callback
LoadExistingDiagrams ==
  /\ startup = "pending"
  /\ startup' = "loaded"
  /\ currentDiagrams' = IF diagramsJson # <<>> THEN diagramsJson ELSE currentDiagrams
  /\ UNCHANGED <<pureVars, lifecycleVars, reply, fs, edits, notifs, lastAnalysis, legacyVars, more, inbox, jobs,
                 resultQueue, handlers, analysisJson, diagramsJson, broadcasts,
                 errorLog, toolCalls>>

\* the setImmediate callback once the server runs: the worker is created and
\* the initial analysis is posted
StartWorker ==
  /\ startup = "loaded"
  /\ startup' = "ready"
  /\ inbox' = Append(inbox, analyzeMessage(TRUE, <<>>))
  /\ UNCHANGED <<pureVars, lifecycleVars, reply, fs, edits, notifs, lastAnalysis, legacyVars, more, jobs,
                 resultQueue, handlers, currentDiagrams, analysisJson, diagramsJson,
                 broadcasts, errorLog, toolCalls>>

\* the tool.execute.after hook
PluginToolExecuteAfter(call) ==
  /\ startup = "ready"
  /\ notifs < MaxPosts
  /\ pluginHookTable[call]
  /\ notifs' = notifs + 1
  /\ inbox' = Append(inbox, analyzeMessage(FALSE, <<call.filePath>>))
  /\ UNCHANGED <<pureVars, lifecycleVars, reply, fs, edits, lastAnalysis, legacyVars, more, startup, jobs,
                 resultQueue, handlers, currentDiagrams, analysisJson, diagramsJson,
                 broadcasts, errorLog, toolCalls>>

\* self.onmessage up to its first await
WorkerOnMessage ==
  /\ inbox # <<>>
  /\ inbox' = Tail(inbox)
  /\ jobs' = Append(jobs, IF Head(inbox).full THEN newJob("collect", <<>>)
                          ELSE newJob("analyze", Head(inbox).files))
  /\ UNCHANGED <<pureVars, lifecycleVars, reply, fs, edits, notifs, lastAnalysis, legacyVars, more, startup,
                 resultQueue, handlers, currentDiagrams, analysisJson, diagramsJson,
                 broadcasts, errorLog, toolCalls>>

\* the end of self.onmessage: the result is built and posted
postResult(j, files, bulk) ==
  /\ resultQueue' = Append(resultQueue, makeResult(files, bulk))
  /\ jobs' = removeAt(jobs, j)

workerCollected(j, filePaths) ==
  IF filePaths = <<>>
  THEN postResult(j, <<>>, more)
  ELSE /\ jobs' = [jobs EXCEPT ![j] =
                     [jobs[j] EXCEPT !.stage = "analyze", !.todo = filePaths,
                                     !.bulk = more]]
       /\ UNCHANGED resultQueue

\* self.onmessage after collectFiles has listed the workspace
WorkerCollect(j) ==
  /\ j \in 1..Len(jobs)
  /\ jobs[j].stage = "collect"
  /\ workerCollected(j, workerCollectFiles(fs))
  /\ UNCHANGED <<pureVars, lifecycleVars, reply, fs, edits, notifs, lastAnalysis, legacyVars, more, startup, inbox,
                 handlers, currentDiagrams, analysisJson, diagramsJson, broadcasts,
                 errorLog, toolCalls>>

pushed(files, info) == IF info.kind = "file" THEN Append(files, info.file) ELSE files

workerLooped(j, job, files) ==
  IF Tail(job.todo) = <<>>
  THEN postResult(j, files, job.bulk)
  ELSE /\ jobs' = [jobs EXCEPT ![j] =
                     [job EXCEPT !.todo = Tail(job.todo), !.files = files]]
       /\ UNCHANGED resultQueue

\* one iteration of the loop of self.onmessage
WorkerAnalyzeFile(j) ==
  /\ j \in 1..Len(jobs)
  /\ jobs[j].stage = "analyze"
  /\ jobs[j].todo # <<>>
  /\ workerLooped(j, jobs[j],
                  pushed(jobs[j].files, workerAnalyzeFile(fs, Head(jobs[j].todo))))
  /\ UNCHANGED <<pureVars, lifecycleVars, reply, fs, edits, notifs, lastAnalysis, legacyVars, more, startup, inbox,
                 handlers, currentDiagrams, analysisJson, diagramsJson, broadcasts,
                 errorLog, toolCalls>>

\* globalWorker.onmessage up to its await of the write of analysis.json
accepted(analysis) ==
  IF exceedsLimit(analysis)
  THEN /\ errorLog' = Append(errorLog, "limit")
       /\ UNCHANGED <<lastAnalysis, handlers>>
  ELSE /\ lastAnalysis' = <<analysis>>
       /\ handlers' = Append(handlers,
                             newHandler("analysis", "analysis.json", <<analysis>>, <<>>,
                                        <<>>))
       /\ UNCHANGED errorLog

OnMessage ==
  /\ resultQueue # <<>>
  /\ resultQueue' = Tail(resultQueue)
  /\ accepted(Head(resultQueue))
  /\ UNCHANGED <<pureVars, lifecycleVars, reply, fs, edits, notifs, legacyVars, more, startup, inbox, jobs,
                 currentDiagrams, analysisJson, diagramsJson, broadcasts, toolCalls>>

\* globalWorker.onmessage after analysis.json is written: saveDiagrams up to
\* its await when there are auto diagrams, else the broadcast
generated(h, autoDiagrams) ==
  IF autoDiagrams # <<>>
  THEN /\ currentDiagrams' = <<diagramSetOf(autoDiagrams \o existingNonAuto)>>
       /\ handlers' = [handlers EXCEPT ![h] =
                         [handlers[h] EXCEPT !.stage = "diagrams.json",
                                             !.set = currentDiagrams']]
       /\ UNCHANGED broadcasts
  ELSE /\ broadcasts' = Append(broadcasts, analysisBroadcast(lastAnalysis))
       /\ handlers' = removeAt(handlers, h)
       /\ UNCHANGED currentDiagrams

AnalysisWritten(h) ==
  /\ h \in 1..Len(handlers)
  /\ handlers[h].stage = "analysis.json"
  /\ analysisJson' = handlers[h].analysis
  /\ generated(h, generateDiagramsFromAnalysis(handlers[h].analysis[1]))
  /\ UNCHANGED <<pureVars, lifecycleVars, reply, fs, edits, notifs, lastAnalysis, legacyVars, more, startup, inbox,
                 jobs, resultQueue, diagramsJson, errorLog, toolCalls>>

\* what is broadcast once diagrams.json is written
announced(handler) ==
  IF handler.kind = "analysis"
  THEN <<updateBroadcast("analysis"), analysisBroadcast(lastAnalysis)>>
  ELSE <<updateBroadcast(handler.kind)>>

\* saveDiagrams after its await, and the rest of the function that called it
DiagramsWritten(h) ==
  /\ h \in 1..Len(handlers)
  /\ handlers[h].stage = "diagrams.json"
  /\ diagramsJson' = handlers[h].set
  /\ broadcasts' = broadcasts \o announced(handlers[h])
  /\ reply' = IF handlers[h].result # <<>> THEN handlers[h].result ELSE reply
  /\ handlers' = removeAt(handlers, h)
  /\ UNCHANGED <<pureVars, lifecycleVars, fs, edits, notifs, lastAnalysis, legacyVars, more, startup, inbox,
                 jobs, resultQueue, currentDiagrams, analysisJson, errorLog,
                 toolCalls>>

\* Bun.write throws: the async function that awaits it ends there
WriteFails(h) ==
  /\ h \in 1..Len(handlers)
  /\ failures < MaxFailures
  /\ handlers' = removeAt(handlers, h)
  /\ errorLog' = Append(errorLog, handlers[h].stage)
  /\ reply' = IF handlers[h].result # <<>> THEN <<toolResult(FALSE, "thrown")>>
              ELSE reply
  /\ UNCHANGED <<pureVars, lifecycleVars, fs, edits, notifs, lastAnalysis, legacyVars, more, startup, inbox,
                 jobs, resultQueue, currentDiagrams, analysisJson, diagramsJson,
                 broadcasts, toolCalls>>

\* saveDiagrams up to its await, called by a diagram tool
saveDiagrams(diagrams, reason, result) ==
  /\ currentDiagrams' = <<diagramSetOf(diagrams)>>
  /\ handlers' = Append(handlers,
                        newHandler(reason, "diagrams.json", <<>>, currentDiagrams',
                                   <<result>>))

\* the diagram_update tool
DiagramUpdate(input) ==
  /\ toolCalls < MaxToolCalls
  /\ toolCalls' = toolCalls + 1
  /\ saveDiagrams(mergeDiagrams(createDiagramRecord(input.type, input.mermaid,
                                                    input.description),
                                existingDiagrams),
                  "update", toolResult(TRUE, input.type))
  /\ UNCHANGED <<pureVars, lifecycleVars, reply, fs, edits, notifs, lastAnalysis, legacyVars, more, startup, inbox,
                 jobs, resultQueue, analysisJson, diagramsJson, broadcasts, errorLog>>

notFound(id) == toolResult(FALSE, "Diagram '" \o id \o "' not found")

\* the filtered set is saved whether or not it is shorter
deletedAlways(id, filtered) ==
  /\ saveDiagrams(filtered, "delete", toolResult(TRUE, id))
  /\ UNCHANGED reply

deleted(id, filtered) ==
  IF Len(filtered) = Len(existingDiagrams)
  THEN /\ reply' = <<notFound(id)>>
       /\ UNCHANGED <<currentDiagrams, handlers>>
  ELSE /\ saveDiagrams(filtered, "delete", toolResult(TRUE, id))
       /\ UNCHANGED reply

\* the diagram_delete tool
DiagramDelete(id) ==
  /\ toolCalls < MaxToolCalls
  /\ toolCalls' = toolCalls + 1
  /\ deleted(id, SelectSeq(existingDiagrams, LAMBDA d : d.id # id))
  /\ UNCHANGED <<pureVars, lifecycleVars, fs, edits, notifs, lastAnalysis, legacyVars, more, startup, inbox,
                 jobs, resultQueue, analysisJson, diagramsJson, broadcasts, errorLog>>

InitPlugin ==
  /\ fs = [p \in Files |-> 1]
  /\ edits = 0
  /\ notifs = 0
  /\ lastAnalysis = <<>>
  /\ pendingFiles = <<>>
  /\ debounceTimer = FALSE
  /\ initialPending = FALSE
  /\ passes = <<>>
  /\ fileCache = <<>>
  /\ graphJson = <<>>
  /\ broadcasted = <<>>
  /\ dirty = {}
  /\ staleSignal = FALSE
  /\ more \in {0, BulkFiles}
  /\ startup = "pending"
  /\ inbox = <<>>
  /\ jobs = <<>>
  /\ resultQueue = <<>>
  /\ handlers = <<>>
  /\ currentDiagrams = <<>>
  /\ analysisJson = <<>>
  /\ diagramsJson \in {<<>>, <<persistedDiagrams>>}
  /\ broadcasts = <<>>
  /\ errorLog = <<>>
  /\ toolCalls = 0
  /\ reply = <<>>
  /\ InitLifecycle
  /\ InitPure

NextPlugin ==
  \/ \E p \in Files, v \in 0..MaxVersion : FsEdit(p, v)
  \/ LoadExistingDiagrams
  \/ StartWorker
  \/ \E call \in ToolCalls : PluginToolExecuteAfter(call)
  \/ WorkerOnMessage
  \/ \E j \in 1..(MaxPosts + 1) : WorkerCollect(j)
  \/ \E j \in 1..(MaxPosts + 1) : WorkerAnalyzeFile(j)
  \/ OnMessage
  \/ \E h \in 1..(MaxPosts + MaxToolCalls + 1) : AnalysisWritten(h)
  \/ \E h \in 1..(MaxPosts + MaxToolCalls + 1) : DiagramsWritten(h)
  \/ \E h \in 1..(MaxPosts + MaxToolCalls + 1) : WriteFails(h)
  \/ \E input \in UpdateInputs : DiagramUpdate(input)
  \/ \E id \in DeleteIds : DiagramDelete(id)

SpecPlugin == InitPlugin /\ [][NextPlugin]_vars

(***************************************************************************)
(* Properties of the legacy plugin, checked under SpecLegacy.              *)
(***************************************************************************)

\* C1: at most one analysis pass, full or incremental, is executing at any
\* time; no second pass starts before the running pass has completed.
C1_OnePassAtATime == Cardinality(RunningPasses) <= 1

\* the list analyze() builds from a directory walk of the file system
RECURSIVE analyzeAll(_, _)
analyzeAll(fsys, paths) ==
  IF paths = <<>> THEN <<>>
  ELSE (IF analyzeFile(fsys, Head(paths)).kind = "file"
        THEN <<analyzeFile(fsys, Head(paths)).file>> ELSE <<>>)
       \o analyzeAll(fsys, Tail(paths))

\* the CodebaseAnalysis a full pass produces over a file system
fullModel(fsys) == makeAnalysis(analyzeAll(fsys, collectFiles(fsys)))

\* the same records, layer tags and dependency entries, in any order
sameModel(a, b) ==
  /\ Len(a.files) = Len(b.files)
  /\ Range(a.files) = Range(b.files)
  /\ Range(a.layerMap) = Range(b.layerMap)
  /\ Range(a.dependencyGraph) = Range(b.dependencyGraph)

\* pass i ends its analysis in this step, having run alone, on a file
\* system nobody edited meanwhile, over a change set that names every path
\* edited since the previous pass
coveringIncrementalEnds(i) ==
  /\ i \in 1..Len(passes)
  /\ passes[i].mode = "incremental"
  /\ passes[i].stage = "analyze"
  /\ passes[i].cover
  /\ passes'[i].stage = "generate"

\* C3: the model after an incremental pass over a change set (of at most 20
\* paths) that contains every path created, modified or deleted since the
\* previous pass equals the model of a full pass over the same file system,
\* ignoring order.
C3_IncrementalEqualsFull ==
  [][\A i \in 1..MaxPasses :
       coveringIncrementalEnds(i) => sameModel(lastAnalysis'[1], fullModel(fs'))]_vars

\* C4: the paths of the batches that arrived while a pass is running stay
\* queued until that pass has completed; they are not taken by a pass that
\* starts meanwhile.
C4_BatchesWaitForRunningPass ==
  \A i \in RunningPasses : passes[i].during \subseteq Range(pendingFiles)

\* C5: no two FileRecords of a model snapshot have the same repo-relative
\* path.
C5_UniquePaths ==
  lastAnalysis # <<>> =>
    \A i, j \in 1..Len(lastAnalysis[1].files) :
      lastAnalysis[1].files[i].relativePath = lastAnalysis[1].files[j].relativePath
        => i = j

recordPaths(analysis) ==
  {analysis.files[i].relativePath : i \in 1..Len(analysis.files)}

\* C6: in every model, the source and the target of each dependency entry
\* are paths of FileRecords of that model.
C6_EdgesBetweenRecords ==
  lastAnalysis # <<>> =>
    \A e \in Range(lastAnalysis[1].dependencyGraph) :
      /\ e.key \in recordPaths(lastAnalysis[1])
      /\ Range(e.value) \subseteq recordPaths(lastAnalysis[1])

\* the directory names no FileRecord may lie under
ExcludedDirs ==
  {"node_modules", ".git", ".architecture", "dist", "build",
   "__pycache__", ".next", ".venv", "venv", ".cache"}

underExcluded(p) == \E d \in Range(dirSegments(p)) : d \in ExcludedDirs

excludedTable == [p \in RelativePaths |-> underExcluded(p)]

\* C7: the model contains no FileRecord whose path lies under an excluded
\* directory, also when such a path was reported as changed.
C7_NoExcludedRecords ==
  lastAnalysis # <<>> =>
    \A p \in recordPaths(lastAnalysis[1]) : ~excludedTable[p]

(***************************************************************************)
(* Properties of the worker based plugin, checked under SpecPlugin.        *)
(***************************************************************************)
autoDiagramsOf(diagrams) == SelectSeq(diagrams, LAMBDA d : isAuto(d))

\* the auto diagrams of the in-memory DiagramSet are those of the live model
diagramsOfModel(analysis, diagrams) ==
  analysis # <<>> => autoDiagramsOf(diagrams) = generateDiagramsFromAnalysis(analysis[1])

\* C2: whenever a consumer reads the live model, the analysis it is given
\* (lastAnalysis) and the auto diagrams of the DiagramSet it is given
\* (currentDiagrams) come from one and the same completed analysis pass.
C2_OneSnapshot == diagramsOfModel(lastAnalysis, existingDiagrams)

\* C8: the step that takes a result with more than MAX_FILES_LIMIT files
\* from the worker leaves the live model, the persisted analysis document,
\* the DiagramSet in memory and on disk, and the broadcasts as they were.
C8_OversizedResultRejected ==
  [][(/\ resultQueue # <<>>
      /\ Len(Head(resultQueue).files) + Head(resultQueue).more > MAX_FILES_LIMIT
      /\ resultQueue' = Tail(resultQueue))
     => UNCHANGED <<lastAnalysis, analysisJson, currentDiagrams, diagramsJson,
                    broadcasts, handlers>>]_vars

\* a result over the limit has been taken from the worker and logged
C8_Witness ==
  /\ "limit" \in Range(errorLog)
  /\ more = BulkFiles
  /\ resultQueue = <<>>

\* C9: when a write fails and nothing else is in flight on the main thread,
\* the live model and the DiagramSet belong to the same pass afterwards.
C9_FailureKeepsModelAndDiagramsTogether ==
  [][\A h \in 1..(MaxPosts + MaxToolCalls + 1) :
       (WriteFails(h) /\ Len(handlers) = 1)
         => diagramsOfModel(lastAnalysis', diagramsIn(currentDiagrams'))]_vars

recordsOf(diagrams, id) == SelectSeq(diagrams, LAMBDA d : d.id = id)

otherRecords(diagrams, id) == SelectSeq(diagrams, LAMBDA d : d.id # id)

\* one record with the id, the markup and the description; the rest as before
replacedBy(before, after, id, mermaid, description) ==
  /\ Len(recordsOf(after, id)) = 1
  /\ recordsOf(after, id)[1].mermaid = mermaid
  /\ recordsOf(after, id)[1].description = description
  /\ otherRecords(after, id) = otherRecords(before, id)

\* C10 as stated: diagram_update with a description yields a set with
\* exactly one record of the type's id that carries the markup and that
\* description; the other records are unchanged and keep their order.
C10_UpdateStoresDescription ==
  [][\A input \in UpdateInputs :
       (DiagramUpdate(input) /\ input.description # <<>>)
         => replacedBy(existingDiagrams, diagramsIn(currentDiagrams'), input.type,
                       input.mermaid, input.description[1])]_vars

describedAs(input) ==
  IF input.description = <<>> \/ input.description[1] = ""
  THEN "Generated " \o input.type \o " diagram"
  ELSE input.description[1]

\* C10 amended: diagram_update yields a set with exactly one record of the
\* type's id that carries the markup and the description, or the text
\* "Generated <type> diagram" when the description is empty or left out;
\* the other records are unchanged and keep their order.
C10_UpdateReplacesOneRecord ==
  [][\A input \in UpdateInputs :
       DiagramUpdate(input)
         => replacedBy(existingDiagrams, diagramsIn(currentDiagrams'), input.type,
                       input.mermaid, describedAs(input))]_vars

\* an update has replaced the class diagram of a set that holds another record
C10_Witness ==
  /\ toolCalls = 1
  /\ Len(existingDiagrams) = 2
  /\ recordsOf(existingDiagrams, "class") # <<>>
  /\ recordsOf(existingDiagrams, "class")[1].mermaid = "classDiagram\n  class User"
  /\ recordsOf(existingDiagrams, "layer-overview") # <<>>

(***************************************************************************)
(* Properties of the DiagramSet, checked under SpecPlugin.                 *)
(***************************************************************************)
uniqueIds(diagrams) ==
  \A i, j \in 1..Len(diagrams) : diagrams[i].id = diagrams[j].id => i = j

\* C11: no two records of the DiagramSet, in memory or as persisted, have
\* the same id, whatever updates, deletes, accepted results and loads of a
\* persisted set came before.
C11_UniqueIds ==
  /\ uniqueIds(existingDiagrams)
  /\ uniqueIds(diagramsIn(diagramsJson))

\* a loaded set has been through an update and an accepted analysis result
C11_Witness ==
  /\ toolCalls = 1
  /\ analysisJson # <<>>
  /\ Len(diagramsIn(diagramsJson)) = 4
  /\ diagramsJson = currentDiagrams

\* C12: diagram_delete of an id the DiagramSet holds removes exactly the
\* record with that id, keeps every other record as it was, and reports
\* success once the set is written; diagram_delete of an id the set does not
\* hold reports not-found, starts no write and no broadcast, and leaves the
\* DiagramSet in memory and on disk as it was.
C12_DeleteRemovesOneRecord ==
  [][/\ \A id \in DeleteIds :
          DiagramDelete(id) =>
            IF recordsOf(existingDiagrams, id) # <<>>
            THEN /\ diagramsIn(currentDiagrams') = otherRecords(existingDiagrams, id)
                 /\ Len(handlers') = Len(handlers) + 1
                 /\ handlers'[Len(handlers')].set = currentDiagrams'
                 /\ handlers'[Len(handlers')].result = <<toolResult(TRUE, id)>>
                 /\ UNCHANGED <<diagramsJson, broadcasts>>
            ELSE /\ reply' # <<>>
                 /\ ~reply'[1].success
                 /\ UNCHANGED <<currentDiagrams, diagramsJson, broadcasts, handlers>>
     /\ \A h \in 1..(MaxPosts + MaxToolCalls + 1) :
          (DiagramsWritten(h) /\ handlers[h].kind = "delete") =>
            /\ diagramsJson' = handlers[h].set
            /\ reply' = handlers[h].result]_vars

\* the class diagram of a loaded set has been deleted and success reported
C12_Witness ==
  /\ reply = <<toolResult(TRUE, "class")>>
  /\ recordsOf(diagramsIn(diagramsJson), "class") = <<>>
  /\ recordsOf(diagramsIn(diagramsJson), "layer-overview") # <<>>

\* the keywords a markup of a supported dialect starts with
DialectKeywords ==
  {"graph", "flowchart", "sequenceDiagram", "classDiagram", "stateDiagram", "erDiagram"}

supportedDialect(markup) == \E keyword \in DialectKeywords : startsWith(markup, keyword)

\* C13: a diagram_update whose markup is empty or starts with none of the
\* supported dialects stores nothing: the DiagramSet in memory is unchanged,
\* no write of the persisted set is started, and the caller is told of the
\* failure.
C13_BadMarkupRejected ==
  [][\A update \in UpdateInputs :
       (DiagramUpdate(update) /\ ~supportedDialect(update.mermaid))
         => /\ UNCHANGED <<currentDiagrams, handlers, diagramsJson>>
            /\ reply' # <<>>
            /\ ~reply'[1].success]_vars


descendingPriority(diagrams) ==
  \A i, j \in 1..Len(diagrams) : i < j => diagrams[i].priority >= diagrams[j].priority

\* C16: the records of the DiagramSet the plugin holds, and of the one in
\* diagrams.json, are in descending order of priority after every merge of
\* an analysis result, every diagram_update and every diagram_delete.
C16_DescendingPriority ==
  /\ descendingPriority(existingDiagrams)
  /\ descendingPriority(diagramsIn(diagramsJson))

C16_Witness ==
  /\ toolCalls = 1
  /\ handlers = <<>>
  /\ diagramsJson = currentDiagrams
  /\ Len(existingDiagrams) = 4
  /\ existingDiagrams[1].priority > existingDiagrams[4].priority
  /\ recordsOf(existingDiagrams, "sequence") # <<>>
  /\ recordsOf(existingDiagrams, "layer-overview") # <<>>
  /\ recordsOf(existingDiagrams, "class") # <<>>

nonAutoDiagramsOf(diagrams) == SelectSeq(diagrams, LAMBDA d : ~isAuto(d))

\* C17: when the plugin has taken an analysis result and goes on to the
\* diagrams, the DiagramSet it holds afterwards has exactly the auto
\* diagrams generated from that result and the non-auto records it had
\* before, unchanged; no auto record of an earlier model remains.
C17_AutoDiagramsRegenerated ==
  [][\A h \in 1..(MaxPosts + MaxToolCalls + 1) :
       AnalysisWritten(h)
         => /\ autoDiagramsOf(diagramsIn(currentDiagrams'))
                 = generateDiagramsFromAnalysis(handlers[h].analysis[1])
            /\ nonAutoDiagramsOf(diagramsIn(currentDiagrams'))
                 = nonAutoDiagramsOf(existingDiagrams)]_vars

\* the model holds a record for every source file of the workspace: it is
\* the result of a full analysis
coversWorkspace(analysis) ==
  \A p \in Range(workerCollectFiles(fs)) :
    \E i \in 1..Len(analysis.files) : analysis.files[i].path = p

\* every record of a path other than p is in the later model as it was
keptExcept(before, after, p) ==
  \A r \in Range(before.files) : r.path # p => r \in Range(after.files)

\* C19: an incremental analysis leaves the FileRecord of every path outside
\* its change set in the live model, unchanged.  The hook reports one path
\* at a time: when the result of such an analysis replaces a model that
\* covers the unedited workspace, the records of all paths but one are kept.
C19_IncrementalKeepsOtherRecords ==
  [][(/\ OnMessage
      /\ edits = 0
      /\ lastAnalysis # <<>>
      /\ coversWorkspace(lastAnalysis[1])
      /\ lastAnalysis' # lastAnalysis)
     => \E r \in Range(lastAnalysis[1].files) :
          keptExcept(lastAnalysis[1], lastAnalysis'[1], r.path)]_vars
(***************************************************************************)
(* The graph view of the server (src/src/server/index.ts), studied as a    *)
(* function under SpecGraph.  An analysis is built from four groups of     *)
(* files: files in the root, files that each lie in a directory of their   *)
(* own, files in src/ and files in src/api/.                               *)
(***************************************************************************)
MAX_NODES == 200

Crowd == 201

Some == 100

GroupSizes == {0, 1, Some, Crowd}

WideGroupSizes == {0, 1, Crowd}

graphFile(path, layer) ==
  [path |-> path, layer |-> layer, imports |-> <<>>, functions |-> <<"f">>,
   classes |-> <<>>, exports |-> <<"f">>]

rootFiles(n) == [i \in 1..n |-> graphFile("f" \o ToString(i) \o ".ts", "other")]

ownDirFiles(n) == [i \in 1..n |-> graphFile("d" \o ToString(i) \o "/x.ts", "other")]

srcFiles(n) == [i \in 1..n |-> graphFile("src/f" \o ToString(i) \o ".ts", "other")]

apiFiles(n) == [i \in 1..n |-> graphFile("src/api/f" \o ToString(i) \o ".ts", "api")]

MaxGraphFiles == 303

GraphInputs ==
  {shape \in [root : WideGroupSizes, own : WideGroupSizes, src : GroupSizes, api : GroupSizes] :
     shape.root + shape.own + shape.src + shape.api <= MaxGraphFiles}

filesOf(shape) ==
  rootFiles(shape.root) \o ownDirFiles(shape.own) \o srcFiles(shape.src)
    \o apiFiles(shape.api)

\* f.path.split("/").pop() || f.path
labelOf(path, last) == IF last = "" THEN path ELSE last

fileNode(f) ==
  [id |-> f.path,
   label |-> labelOf(f.path, lastSegment(f.path)),
   path |-> f.path,
   layer |-> f.layer,
   functions |-> Len(f.functions),
   classes |-> Len(f.classes),
   exports |-> Len(f.exports)]

importEdges(file, fileSet) ==
  [i \in 1..Len(SelectSeq(file.imports, LAMBDA imp : imp \in fileSet)) |->
     [source |-> file.path,
      target |-> SelectSeq(file.imports, LAMBDA imp : imp \in fileSet)[i],
      type |-> "imports"]]

\* the loop over files[lo..hi], taken in two halves
RECURSIVE allImportEdges(_, _, _, _)
allImportEdges(files, lo, hi, fileSet) ==
  IF lo > hi THEN <<>>
  ELSE IF lo = hi THEN importEdges(files[lo], fileSet)
  ELSE allImportEdges(files, lo, (lo + hi) \div 2, fileSet)
         \o allImportEdges(files, (lo + hi) \div 2 + 1, hi, fileSet)

\* parts.slice(0, depth).join("/") with depth 2 for three parts or more
dirKeyOf(parts) == joinWith(slice(parts, IF Len(parts) > 2 THEN 2 ELSE 1), "/")

dirKeys(files) == [i \in 1..Len(files) |-> dirKeyOf(split(files[i].path, "/"))]

\* A Map keeps its keys in the order of their first insertion: the positions
\* of keys at which a key occurs for the first time
firstSeen(keys) ==
  SelectSeq([i \in 1..Len(keys) |-> i], LAMBDA i : \A j \in 1..(i - 1) : keys[j] # keys[i])

\* the positions of keys that hold the key
positionsOf(keys, key) == SelectSeq([i \in 1..Len(keys) |-> i], LAMBDA i : keys[i] = key)

\* the sum of numbers[lo..hi], taken in two halves
RECURSIVE total(_, _, _)
total(numbers, lo, hi) ==
  IF lo > hi THEN 0
  ELSE IF lo = hi THEN numbers[lo]
  ELSE total(numbers, lo, (lo + hi) \div 2) + total(numbers, (lo + hi) \div 2 + 1, hi)

\* existing.layers[f.layer] = (existing.layers[f.layer] || 0) + 1 over the
\* files of one directory
layerCounts(layers, first) ==
  [k \in 1..Len(first) |->
     [key |-> layers[first[k]], value |-> Len(positionsOf(layers, layers[first[k]]))]]

layersOf(members) == [i \in 1..Len(members) |-> members[i].layer]

\* what the loop of aggregateByDirectory has added up for one directory
dirEntry(members) ==
  [files |-> Len(members),
   functions |-> total([i \in 1..Len(members) |-> Len(members[i].functions)], 1, Len(members)),
   classes |-> total([i \in 1..Len(members) |-> Len(members[i].classes)], 1, Len(members)),
   layers |-> layerCounts(layersOf(members), firstSeen(layersOf(members)))]

membersOf(files, positions) == [i \in 1..Len(positions) |-> files[positions[i]]]

\* dirMap after the loop of aggregateByDirectory over files
dirMapOf(files, keys, first) ==
  [k \in 1..Len(first) |->
     [key |-> keys[first[k]],
      value |-> dirEntry(membersOf(files, positionsOf(keys, keys[first[k]])))]]

dirNode(entry) ==
  [id |-> entry.key,
   label |-> entry.key \o " (" \o ToString(entry.value.files) \o ")",
   path |-> entry.key,
   layer |-> topLayer(entry.value.layers),
   functions |-> entry.value.functions,
   classes |-> entry.value.classes,
   exports |-> entry.value.files]

dirNodes(dirMap) == [i \in 1..Len(dirMap) |-> dirNode(dirMap[i])]

aggregateByDirectory(files) ==
  [nodes |-> dirNodes(dirMapOf(files, dirKeys(files), firstSeen(dirKeys(files)))),
   edges |-> <<>>]

fileGraph(files, nodes) ==
  [nodes |-> nodes,
   edges |-> allImportEdges(files, 1, Len(files),
                            {nodes[i].id : i \in 1..Len(nodes)})]

transformToGraph(analysis) ==
  IF Len(analysis.files) > MAX_NODES
  THEN aggregateByDirectory(analysis.files)
  ELSE fileGraph(analysis.files, [i \in 1..Len(analysis.files) |-> fileNode(analysis.files[i])])

idleVars == <<fs, edits, notifs, lastAnalysis, legacyVars, pluginVars>>

\* no plugin runs: the variables of both plugins keep their initial values
InitIdle ==
  /\ fs = [p \in Files |-> 1]
  /\ edits = 0
  /\ notifs = 0
  /\ lastAnalysis = <<>>
  /\ pendingFiles = <<>>
  /\ debounceTimer = FALSE
  /\ initialPending = TRUE
  /\ passes = <<>>
  /\ fileCache = <<>>
  /\ graphJson = <<>>
  /\ broadcasted = <<>>
  /\ dirty = Files
  /\ staleSignal = FALSE
  /\ InitPluginIdle

InitGraph ==
  /\ InitIdle
  /\ argument \in {<<[files |-> filesOf(shape)]>> : shape \in GraphInputs}
  /\ returned = <<>>

\* GET /api/graph answers with the graph view of the analysis
TransformToGraph ==
  /\ returned = <<>>
  /\ returned' = <<transformToGraph(argument[1])>>
  /\ UNCHANGED <<argument, idleVars>>

NextGraph == TransformToGraph

SpecGraph == InitGraph /\ [][NextGraph]_vars

\* C14: the graph view of an analysis with more than MAX_NODES files has
\* fewer nodes than the analysis has files, and fewer nodes than MAX_NODES.
C14_FewerNodesThanFiles ==
  (returned # <<>> /\ Len(argument[1].files) > MAX_NODES)
    => /\ Len(returned[1].nodes) < Len(argument[1].files)
       /\ Len(returned[1].nodes) < MAX_NODES

(***************************************************************************)
(* Further properties of the legacy plugin, checked under SpecLegacy.      *)
(***************************************************************************)

\* pass i, a full pass that started when no other pass was running, ends its
\* analysis in this step on a file system nobody edited meanwhile
coveringFullEnds(i) ==
  /\ i \in 1..Len(passes)
  /\ passes[i].mode \in {"full", "initial"}
  /\ passes[i].stage \in {"collect", "analyze"}
  /\ passes[i].cover
  /\ passes'[i].stage = "generate"

\* such a pass writes graph.json in this step
coveringFullGenerates(i) ==
  /\ i \in 1..Len(passes)
  /\ passes[i].mode \in {"full", "initial"}
  /\ passes[i].cover
  /\ PassGenerate(i)

C18_ModeOfBatch ==
  [][TimerFire =>
       /\ staleSignal => passes'[Len(passes')].mode = "full"
       /\ ~staleSignal =>
            (passes'[Len(passes')].mode = "incremental"
               <=> (Len(pendingFiles) > 0 /\ Len(pendingFiles) <= IncrementalThreshold))
       /\ passes'[Len(passes')].mode \in {"incremental", "full"}]_vars

(***************************************************************************)
(* The import resolution of the dependency data (MdxGenerator), studied as *)
(* a function under SpecResolve: an importing file, an import source and a *)
(* set of FileRecords, of which only the paths matter.                     *)
(***************************************************************************)
ResolveUniverse ==
  << "src/utils", "src/utils.ts", "src/utils.js", "src/utils/index.ts",
     "src/components/index.js", "src/components/index.jsx", "lib/util.py",
     "utils.tsx" >>

recordsAt(paths) ==
  [i \in 1..Len(SelectSeq(ResolveUniverse, LAMBDA p : p \in paths)) |->
     [relativePath |-> SelectSeq(ResolveUniverse, LAMBDA p : p \in paths)[i]]]

InitResolve ==
  /\ InitIdle
  /\ argument \in {<<[fromFile |-> from, importPath |-> imp, files |-> recordsAt(paths)]>> :
                     from \in ResolveFroms, imp \in ResolveImports,
                     paths \in SUBSET Range(ResolveUniverse)}
  /\ returned = <<>>

\* generateDependencyData asks for the target of one import
ResolveImport ==
  /\ returned = <<>>
  /\ returned' = <<resolveImport(argument[1].fromFile, argument[1].importPath,
                                 argument[1].files)>>
  /\ UNCHANGED <<argument, idleVars>>

NextResolve == ResolveImport

SpecResolve == InitResolve /\ [][NextResolve]_vars

\* no suffix, each supported source extension, the index file per extension
SupportedSuffixes == <<".ts", ".tsx", ".js", ".jsx", ".py", ".go", ".rs">>

claimedSuffixes ==
  <<"">> \o SupportedSuffixes
    \o [n \in 1..Len(SupportedSuffixes) |-> "/index" \o SupportedSuffixes[n]]

claimedCandidates(fromFile, importPath) ==
  [n \in 1..Len(claimedSuffixes) |->
     join(joinWith(dirSegments(fromFile), "/"), importPath) \o claimedSuffixes[n]]

\* C20: the target of a relative import is the first path, among the
\* import joined to the directory of the importing file with no suffix,
\* then with each supported source extension, then with the index file of
\* each extension, that is the path of a FileRecord; an import that is not
\* relative or matches no FileRecord has no target.
C20_FirstCandidateWins ==
  returned # <<>> =>
    returned[1] =
      IF startsWith(argument[1].importPath, ".")
      THEN firstFile(claimedCandidates(argument[1].fromFile, argument[1].importPath),
                     argument[1].files)
      ELSE NULL

(***************************************************************************)
(* Directory walks and file reads that fail, studied under SpecWalk.  A    *)
(* world is the workspace with every file of FileUniverse present, a set   *)
(* of directories readdir throws for and a set of files readFile throws    *)
(* for.  Both analyzers run one full analysis over it.                     *)
(***************************************************************************)
WalkDirs == {"", "node_modules", "node_modules/lib", "src", "src/api", "src/services"}

underDir(dir, p) == dir = "" \/ startsWith(p, dir \o "/")

\* the path of p from dir downwards
belowDir(dir, p) == IF dir = "" THEN p ELSE SubSeq(p, Len(dir) + 2, Len(p))

\* the name of the entry of dir that p lies in or is
entryNamesUnder(dir, paths) == [i \in 1..Len(paths) |-> split(belowDir(dir, paths[i]), "/")[1]]

distinctInOrder(names) == [k \in 1..Len(firstSeen(names)) |-> names[firstSeen(names)[k]]]

\* readdir(dir): the names of the entries of a directory
readdir(dir) ==
  distinctInOrder(entryNamesUnder(dir, SelectSeq(FileUniverse, LAMBDA p : underDir(dir, p))))

entryPath(dir, name) == IF dir = "" THEN name ELSE dir \o "/" \o name

isDirectory(path) == \E p \in Files : startsWith(p, path \o "/")

walkThrown == [thrown |-> TRUE, files |-> <<>>]

walkFound(files) == [thrown |-> FALSE, files |-> files]

\* CodeAnalyzer.collectFiles: an exception of readdir, in the directory
\* itself or in one it descends into, leaves the function
RECURSIVE legacyWalk(_, _)
RECURSIVE legacyWalkEntries(_, _, _, _)
legacyWalkEntries(dir, names, unlistable, files) ==
  IF names = <<>> THEN walkFound(files)
  ELSE IF isDirectory(entryPath(dir, Head(names)))
  THEN IF Head(names) \in IGNORE_DIRS
       THEN legacyWalkEntries(dir, Tail(names), unlistable, files)
       ELSE IF legacyWalk(entryPath(dir, Head(names)), unlistable).thrown
       THEN walkThrown
       ELSE legacyWalkEntries(dir, Tail(names), unlistable,
              files \o legacyWalk(entryPath(dir, Head(names)), unlistable).files)
  ELSE IF LANGUAGE_EXTENSIONS(extname(Head(names))) # NULL
  THEN legacyWalkEntries(dir, Tail(names), unlistable,
                         Append(files, entryPath(dir, Head(names))))
  ELSE legacyWalkEntries(dir, Tail(names), unlistable, files)

legacyWalk(dir, unlistable) ==
  IF dir \in unlistable THEN walkThrown
  ELSE legacyWalkEntries(dir, readdir(dir), unlistable, <<>>)

\* collectFiles of the worker: the exception of readdir is caught in the
\* call for the directory, which then returns no files
RECURSIVE workerWalk(_, _)
RECURSIVE workerWalkEntries(_, _, _, _)
workerWalkEntries(dir, names, unlistable, files) ==
  IF names = <<>> THEN files
  ELSE IF ~entryKept(Head(names))
  THEN workerWalkEntries(dir, Tail(names), unlistable, files)
  ELSE IF isDirectory(entryPath(dir, Head(names)))
  THEN workerWalkEntries(dir, Tail(names), unlistable,
                         files \o workerWalk(entryPath(dir, Head(names)), unlistable))
  ELSE IF EXTENSIONS(extname(Head(names))) # NULL
  THEN workerWalkEntries(dir, Tail(names), unlistable,
                         Append(files, entryPath(dir, Head(names))))
  ELSE workerWalkEntries(dir, Tail(names), unlistable, files)

workerWalk(dir, unlistable) ==
  IF dir \in unlistable THEN <<>>
  ELSE workerWalkEntries(dir, readdir(dir), unlistable, <<>>)

\* the file system as readFile sees it: version 0 where the read throws
readableFs(unreadable) == [p \in Files |-> IF p \in unreadable THEN 0 ELSE 1]

\* the loop of CodeAnalyzer.analyze: a file whose analysis throws is skipped
legacyAnalyses(fsys, paths) == analyzeAll(fsys, fullPaths(paths))

\* CodeAnalyzer.analyze as a whole: the exception of collectFiles is not
\* caught, the call ends with it
legacyOutcome(walk, unreadable) ==
  IF walk.thrown THEN [by |-> "CodeAnalyzer", thrown |-> TRUE, paths |-> {}]
  ELSE [by |-> "CodeAnalyzer", thrown |-> FALSE,
        paths |-> recordPaths(makeAnalysis(legacyAnalyses(readableFs(unreadable),
                                                          walk.files)))]

RECURSIVE workerInfos(_, _)
workerInfos(fsys, paths) ==
  IF paths = <<>> THEN <<>>
  ELSE pushed(<<>>, workerAnalyzeFile(fsys, Head(paths))) \o workerInfos(fsys, Tail(paths))

\* self.onmessage of the worker for a request without target files
workerOutcome(listed, unreadable) ==
  [by |-> "worker", thrown |-> FALSE,
   paths |-> {f.path : f \in Range(makeResult(workerInfos(readableFs(unreadable), listed),
                                              0).files)}]

Worlds == [unlistable : SUBSET WalkDirs, unreadable : SUBSET Files]

InitWalk ==
  /\ InitIdle
  /\ argument \in {<<world>> : world \in Worlds}
  /\ returned = <<>>

\* a full pass of the legacy plugin over the world
AnalyzeWorld ==
  /\ returned = <<>>
  /\ returned' = <<legacyOutcome(legacyWalk("", argument[1].unlistable),
                                 argument[1].unreadable)>>
  /\ UNCHANGED <<argument, idleVars>>

\* a full analysis of the worker over the world
WorkerAnalyzeWorld ==
  /\ returned = <<>>
  /\ returned' = <<workerOutcome(workerWalk("", argument[1].unlistable),
                                 argument[1].unreadable)>>
  /\ UNCHANGED <<argument, idleVars>>

NextWalk == AnalyzeWorld \/ WorkerAnalyzeWorld

SpecWalk == InitWalk /\ [][NextWalk]_vars

ancestorDirs(p) == {d \in WalkDirs : underDir(d, p)}

\* the files a walk that skips what it cannot list comes to, and can read
reachableFiles(world, Ignored(_)) ==
  {p \in Files : /\ ancestorDirs(p) \cap world.unlistable = {}
                 /\ \A name \in Range(dirSegments(p)) : ~Ignored(name)
                 /\ p \notin world.unreadable}

\* C21: a directory that cannot be listed and a file that cannot be read do
\* not abort a pass: the pass ends with a model that has a FileRecord for
\* every other file the walk collects and the analyzer can read.
C21_FailuresAreSkipped ==
  returned # <<>> =>
    /\ ~returned[1].thrown
    /\ returned[1].paths =
         IF returned[1].by = "worker"
         THEN reachableFiles(argument[1], LAMBDA name : ~entryKept(name))
         ELSE reachableFiles(argument[1], LAMBDA name : name \in IGNORE_DIRS)

(***************************************************************************)
(* The layer rules of both analyzers, studied under SpecLayer on the files *)
(* of a subset of LayerUniverse.                                           *)
(***************************************************************************)
pathsIn(universe, chosen) == SelectSeq(universe, LAMBDA p : p \in chosen)

InitLayer ==
  /\ InitIdle
  /\ argument \in {<<pathsIn(LayerUniverse, chosen)>> : chosen \in SUBSET Range(LayerUniverse)}
  /\ returned = <<>>

legacyRecords(paths) == [i \in 1..Len(paths) |-> [relativePath |-> paths[i]]]

\* CodeAnalyzer.detectLayers over the FileAnalysis list
DetectLayers ==
  /\ returned = <<>>
  /\ returned' = <<[by |-> "CodeAnalyzer",
                    layerMap |-> detectLayers(legacyRecords(argument[1])),
                    layers |-> <<>>]>>
  /\ UNCHANGED <<argument, idleVars>>

workerRecords(paths) ==
  [i \in 1..Len(paths) |-> [path |-> paths[i], layer |-> detectLayer(paths[i])]]

layersOfRecords(files) == [i \in 1..Len(files) |-> [key |-> files[i].path, value |-> files[i].layer]]

\* the worker: detectLayer for every file, then the layers object
WorkerDetectLayer ==
  /\ returned = <<>>
  /\ returned' = <<[by |-> "worker",
                    layerMap |-> layersOfRecords(workerRecords(argument[1])),
                    layers |-> countLayers(workerRecords(argument[1]), 0)]>>
  /\ UNCHANGED <<argument, idleVars>>

NextLayer == DetectLayers \/ WorkerDetectLayer

SpecLayer == InitLayer /\ [][NextLayer]_vars

\* the patterns in their order: the directory names of each layer
LayerOrder == <<"api", "service", "model", "util", "ui", "config", "test">>

LayerWords(layer) ==
  CASE layer = "api" -> {"api", "routes", "handlers", "controllers"}
    [] layer = "service" -> {"service", "services", "usecase", "usecases"}
    [] layer = "model" -> {"model", "models", "entities", "schema", "schemas"}
    [] layer = "util" -> {"util", "utils", "helper", "helpers", "lib"}
    [] layer = "ui" -> {"component", "components", "view", "views", "page", "pages"}
    [] layer = "config" -> {"config", "settings"}
    [] layer = "test" -> {"test", "tests", "__tests__", "spec"}

matchingLayers(path) ==
  SelectSeq(LayerOrder, LAMBDA layer : Range(dirSegments(path)) \cap LayerWords(layer) # {})

firstMatchingLayer(path) ==
  IF matchingLayers(path) = <<>> THEN "other" ELSE matchingLayers(path)[1]

filesWithLayer(layerMap, layer) == Len(SelectSeq(layerMap, LAMBDA e : e.value = layer))

\* C22: the layer of a file is that of the first pattern, in the order api,
\* service, model, util, ui, config, test, that matches a directory segment
\* of its path, and other when none matches; the count reported for a layer
\* is the number of files with that layer, and the counts sum to the number
\* of files.
C22_LayerByFirstPattern ==
  returned # <<>> =>
    /\ Len(returned[1].layerMap) = Len(argument[1])
    /\ \A i \in 1..Len(returned[1].layerMap) :
         /\ returned[1].layerMap[i].key = argument[1][i]
         /\ returned[1].layerMap[i].value = firstMatchingLayer(argument[1][i])
    /\ returned[1].by = "worker" =>
         /\ \A e \in Range(returned[1].layers) :
              e.value = filesWithLayer(returned[1].layerMap, e.key)
         /\ sumValues(returned[1].layers) = Len(argument[1])

(***************************************************************************)
(* The domains of the worker, studied under SpecDomains on the files of a  *)
(* subset of DomainUniverse.                                               *)
(***************************************************************************)
InitDomains ==
  /\ InitIdle
  /\ argument \in {<<pathsIn(DomainUniverse, chosen)>> : chosen \in SUBSET Range(DomainUniverse)}
  /\ returned = <<>>

\* the worker builds the domains of its result
DetectDomains ==
  /\ returned = <<>>
  /\ returned' = <<detectDomains(workerRecords(argument[1]), 0)>>
  /\ UNCHANGED <<argument, idleVars>>

NextDomains == DetectDomains

SpecDomains == InitDomains /\ [][NextDomains]_vars

ScaffoldingNames == {"src", "lib", "app", "internal", "pkg", "cmd"}

domainSegments(path) ==
  SelectSeq(dirSegments(path),
            LAMBDA part : /\ part \notin ScaffoldingNames
                          /\ ~startsWith(part, ".")
                          /\ ~startsWith(part, "_"))

\* the first directory segment that is neither scaffolding nor hidden nor
\* underscore-prefixed; files without one are grouped as root
statedDomain(path) ==
  IF domainSegments(path) = <<>> THEN "root" ELSE domainSegments(path)[1]

membersOfDomain(paths, name) == Len(SelectSeq(paths, LAMBDA p : statedDomain(p) = name))

\* C23: every reported domain has at least 2 member files, and its
\* fileCount is the number of files whose domain it is, the domain of a
\* path being its first directory segment that is neither a scaffolding
\* name nor hidden nor underscore-prefixed; no domain with a single member
\* is reported.
C23_DomainsHaveTheirMembers ==
  returned # <<>> =>
    \A d \in Range(returned[1]) :
      /\ d.fileCount >= 2
      /\ d.fileCount = membersOfDomain(argument[1], d.name)

(***************************************************************************)
(* The worker with an explicit list of target files, studied under         *)
(* SpecTargets: the targets are paths the hook or a caller passes on, the  *)
(* workspace holds every file of FileUniverse, some of them unreadable.    *)
(***************************************************************************)
TargetUniverse ==
  << "src/api/routes.ts", "./src/api/routes.ts", "/w/src/api/routes.ts",
     "src/services/user.ts", "node_modules/lib/index.js",
     "/w/node_modules/lib/index.js" >>

InitTargets ==
  /\ InitIdle
  /\ argument \in {<<[files |-> pathsIn(TargetUniverse, chosen), unreadable |-> unreadable]>> :
                     chosen \in SUBSET Range(TargetUniverse),
                     unreadable \in SUBSET Files}
  /\ returned = <<>>

\* self.onmessage of the worker for a request with target files
AnalyzeTargets ==
  /\ returned = <<>>
  /\ returned' = <<makeResult(workerInfos(readableFs(argument[1].unreadable),
                                          argument[1].files), 0)>>
  /\ UNCHANGED <<argument, idleVars>>

NextTargets == AnalyzeTargets

SpecTargets == InitTargets /\ [][NextTargets]_vars

\* the file of the workspace a listed path names
namedFile(path) == IF isAbsolute(path) THEN relative(workspaceDir, path) ELSE normalize(path)

readableTargets(request) ==
  SelectSeq(request.files,
            LAMBDA t : namedFile(t) \in Files /\ namedFile(t) \notin request.unreadable)

\* C24: the result for a list of target files has one record for each
\* listed file that can be read, in the order of the list, and no other
\* record; its layer counts and domains are those of these records.
C24_RecordsOfTargetsOnly ==
  returned # <<>> =>
    /\ [i \in 1..Len(returned[1].files) |-> returned[1].files[i].path]
         = readableTargets(argument[1])
    /\ returned[1].layers = countLayers(returned[1].files, 0)
    /\ returned[1].domains = detectDomains(returned[1].files, 0)

\* the files the worker puts into the domain
domainMembers(paths, name) == SelectSeq(paths, LAMBDA p : domainTable[p] = name)

withLayer(paths, layer) == Len(SelectSeq(paths, LAMBDA p : detectLayer(p) = layer))

LayerPriority == LayerOrder \o <<"other">>

\* the layers with the most files among the paths, in priority order
largestLayers(paths) ==
  SelectSeq(LayerPriority,
            LAMBDA layer : \A other \in Range(LayerPriority) :
                             withLayer(paths, other) <= withLayer(paths, layer))

\* C25: the layer of a reported domain is a layer with the largest number
\* of member files, and among several such layers the first in the order
\* api, service, model, util, ui, config, test, other, whatever the order
\* of the files.
C25_DominantLayerByPriority ==
  returned # <<>> =>
    \A d \in Range(returned[1]) :
      d.layer = largestLayers(domainMembers(argument[1], d.name))[1]

(***************************************************************************)
(* The generated diagrams (src/unnamed/part_010), studied under            *)
(* SpecDiagrams on the worker result for a subset of DiagramUniverse.      *)
(***************************************************************************)
importsOf(path) ==
  CASE path = "src/api/client.ts" -> <<"../services/user", "axios">>
    [] path = "src/api/server.ts" -> <<"./client">>
    [] path = "src/components/App.tsx" -> <<"../api/client", "../utils/format">>
    [] path = "src/main.ts" -> <<"./config/env">>
    [] path = "src/services/user.ts" -> <<"../models/user", "../utils/format">>
    [] path = "src/tests/user.test.ts" -> <<"../services/user">>
    [] OTHER -> <<>>

studiedInfo(path) == fileInfo(path, [imports |-> importsOf(path), exports |-> <<>>,
                                     functions |-> <<>>, classes |-> <<>>])

studiedInfos(paths) == [i \in 1..Len(paths) |-> studiedInfo(paths[i])]

InitDiagrams ==
  /\ InitIdle
  /\ argument \in {<<makeResult(studiedInfos(pathsIn(DiagramUniverse, chosen)), 0)>> :
                     chosen \in SUBSET Range(DiagramUniverse)}
  /\ returned = <<>>

\* globalWorker.onmessage generates the auto diagrams of a result
GenerateDiagrams ==
  /\ returned = <<>>
  /\ returned' = <<generateDiagramsFromAnalysis(argument[1])>>
  /\ UNCHANGED <<argument, idleVars>>

NextDiagrams == GenerateDiagrams

SpecDiagrams == InitDiagrams /\ [][NextDiagrams]_vars

filesInLayer(analysis, layer) == Len(SelectSeq(analysis.files, LAMBDA f : f.layer = layer))

positionIn(order, x) == CHOOSE i \in 1..Len(order) : order[i] = x

nodeLine(analysis, layer) == layerBox([key |-> layer, value |-> filesInLayer(analysis, layer)])

\* the positions of a text at which a piece of text begins
occurrences(text, piece) ==
  {i \in 1..(Len(text) - Len(piece) + 1) : SubSeq(text, i, i + Len(piece) - 1) = piece}

occursIn(text, piece) == occurrences(text, piece) # {}

firstOccurrence(text, piece) ==
  CHOOSE i \in occurrences(text, piece) : \A j \in occurrences(text, piece) : i <= j

\* the markup has the node of the layer, with its file count
hasNode(mermaid, analysis, layer) == occursIn(mermaid, nodeLine(analysis, layer))

hasEdge(mermaid, from, to) == occursIn(mermaid, arrow(capitalize(from), capitalize(to)))

\* one node per layer with files, in priority order; edges only between
\* layers with files that are neighbours in the priority order
layerDiagramAsStated(mermaid, analysis) ==
  /\ \A layer \in Range(LayerPriority) :
       IF filesInLayer(analysis, layer) > 0
       THEN hasNode(mermaid, analysis, layer)
       ELSE ~occursIn(mermaid, "    " \o capitalize(layer) \o "[")
  /\ Cardinality(occurrences(mermaid, "<br/>"))
       = Cardinality({layer \in Range(LayerPriority) : filesInLayer(analysis, layer) > 0})
  /\ \A a, b \in Range(LayerPriority) :
       (/\ filesInLayer(analysis, a) > 0
        /\ filesInLayer(analysis, b) > 0
        /\ positionIn(layerOrder, a) < positionIn(layerOrder, b))
         => firstOccurrence(mermaid, nodeLine(analysis, a))
              < firstOccurrence(mermaid, nodeLine(analysis, b))
  /\ \A a, b \in Range(LayerPriority) :
       hasEdge(mermaid, a, b)
         => /\ filesInLayer(analysis, a) > 0
            /\ filesInLayer(analysis, b) > 0
            /\ positionIn(layerOrder, a) - positionIn(layerOrder, b) \in {-1, 1}

\* C26: the layer diagram has exactly one node per layer with files, in the
\* order api, service, model, ui, util, config, test, other and labelled
\* with the file count, and an edge between two layers only if both have
\* files and are neighbours in that order.
C26_LayerDiagram ==
  returned # <<>> =>
    \A d \in Range(recordsOf(returned[1], "layer-overview")) :
      layerDiagramAsStated(d.mermaid, argument[1])

\* the directory of a file and a path without its extension
directoryOf(path) == joinWith(sliceInit(split(path, "/")), "/")

extensionless(path) == withoutExtension(path, lastIndexOf(path, "."))

\* what a relative import of a file names, without extension
importedBase == [p \in Range(DiagramUniverse) |->
                   [i \in 1..Len(importsOf(p)) |-> join(directoryOf(p), importsOf(p)[i])]]

extensionlessTable == [p \in Range(DiagramUniverse) |-> extensionless(p)]

\* the dependency edges of the model: a relative import of one file of the
\* analysis that names another file of the analysis
dependencyEdges(files) ==
  {<<f, g>> \in Range(files) \X Range(files) :
     \E i \in 1..Len(f.imports) :
       /\ startsWith(f.imports[i], ".")
       /\ importedBase[f.path][i] = extensionlessTable[g.path]}

\* the relations between different layers that the dependency edges give
layerRelations(files) ==
  {<<e[1].layer, e[2].layer>> : e \in {d \in dependencyEdges(files) : d[1].layer # d[2].layer}}

participants(relations) == {r[1] : r \in relations} \cup {r[2] : r \in relations}

dependencyDiagramAsStated(mermaid, relations) ==
  /\ \A a, b \in Range(LayerPriority) :
       IF <<a, b>> \in relations
       THEN Cardinality(occurrences(mermaid, arrow(capitalize(a), capitalize(b)))) = 1
       ELSE ~hasEdge(mermaid, a, b)
  /\ \A layer \in Range(LayerPriority) :
       occursIn(mermaid, circle(layer)) <=> layer \in participants(relations)

\* C27: the layer-dependency diagram has a relation from layer A to layer B
\* exactly when a file of layer A imports a file of a different layer B,
\* each relation once, and its nodes are the layers of these relations; it
\* is generated whenever there is such a relation.
C27_LayerDependencies ==
  returned # <<>> =>
    /\ \A d \in Range(recordsOf(returned[1], "layer-dependencies")) :
         dependencyDiagramAsStated(d.mermaid, layerRelations(argument[1].files))
    /\ (layerRelations(argument[1].files) # {}
          => recordsOf(returned[1], "layer-dependencies") # <<>>)

(***************************************************************************)
(* Progress of the legacy plugin (src/src/index.ts), studied under         *)
(* SpecLegacyLive: the event loop runs every callback that is due, the     *)
(* host may dispose the instance at any time.                              *)
(***************************************************************************)
\* the event hook on server.instance.disposed: clearTimeout(debounceTimer)
Dispose ==
  /\ debounceTimer
  /\ debounceTimer' = FALSE
  /\ UNCHANGED <<fs, edits, notifs, pendingFiles, initialPending, passes, fileCache,
                 lastAnalysis, graphJson, broadcasted, dirty, staleSignal,
                 pluginVars, pureVars>>

NextLegacyLive ==
  \/ NextLegacy
  \/ Dispose

\* an immediate runs and a timeout that stays due fires
LegacyScheduling ==
  /\ WF_vars(InitialAnalysis)
  /\ WF_vars(TimerFire)

SpecLegacyLive == InitLegacy /\ [][NextLegacyLive]_vars /\ LegacyScheduling

\* the pass started last is full or has the path in its change set
startsPassOver(path) ==
  /\ Len(passes') = Len(passes) + 1
  /\ \/ passes'[Len(passes')].mode = "full"
     \/ path \in Range(passes'[Len(passes')].todo)

\* a path leaves the pending set only into the pass that starts then
NoPathDropped ==
  [][\A path \in Range(pendingFiles) \ Range(pendingFiles') : startsPassOver(path)]_vars

\* after a trigger, with n passes started so far, one more pass starts
PassFollows(n) == (debounceTimer /\ Len(passes) = n) ~> (Len(passes) > n)

\* ... or the debounce timer is cancelled
PassFollowsUnlessCancelled(n) ==
  (debounceTimer /\ Len(passes) = n) ~> (Len(passes) > n \/ ~debounceTimer)

\* C28 as stated: every path reported by a file-modifying tool call is
\* eventually covered by a pass that starts after the call, incremental
\* over a change set with the path or full, and no path leaves the pending
\* set in another way.
C28_EveryReportedPathAnalysed ==
  /\ \A n \in 0..MaxPasses : PassFollows(n)
  /\ NoPathDropped

\* C28: after a file-modifying tool call a pass starts that is incremental
\* over a change set with every pending path or full, unless a dispose event
\* cancels the debounce timer first; a path leaves the pending set only
\* into the pass that starts at that moment.
C28_AnalysedUnlessDisposed ==
  /\ \A n \in 0..MaxPasses : PassFollowsUnlessCancelled(n)
  /\ NoPathDropped

\* two tool calls have reported two paths and one incremental pass has
\* taken both
C28_Witness ==
  /\ notifs = 2
  /\ pendingFiles = <<>>
  /\ ~debounceTimer
  /\ Len(passes) = 2
  /\ passes[2].mode = "incremental"
  /\ Len(passes[2].todo) = 2

(***************************************************************************)
(* The singleton state of the plugin (src/unnamed/part_011), studied       *)
(* under SpecLifecycle: the host calls the plugin for project directories  *)
(* and for the home directory and sends dispose events, in any order with  *)
(* the steps of the setImmediate callbacks.  The server and the worker     *)
(* created by the k-th callback are called k.                              *)
(***************************************************************************)
MaxInits == 3

homedir == "/home/u"

Directories == {"/home/u", "/home/u/a", "/home/u/b"}

\* validateDirectory: TRUE when it returns an error message
validateDirectory(directory) == directory = homedir

\* cleanup() when it is called, else no change
cleanedServers(called) == IF called THEN liveServers \ {globalServer} ELSE liveServers

cleanedWorkers(called) == IF called THEN liveWorkers \ {globalWorker} ELSE liveWorkers

cleanup ==
  /\ liveWorkers' = cleanedWorkers(TRUE)
  /\ globalWorker' = 0
  /\ liveServers' = cleanedServers(TRUE)
  /\ globalServer' = 0
  /\ isInitialized' = FALSE
  /\ initializingDirectory' = ""

otherVars == <<fs, edits, notifs, lastAnalysis, legacyVars, more, startup, inbox, jobs,
               resultQueue, handlers, currentDiagrams, analysisJson, diagramsJson,
               broadcasts, errorLog, toolCalls, reply, pureVars>>

\* plugin(input) when the singleton guard does not return the existing
\* hooks: clean up for another directory, validate, schedule the start-up
initialize(directory, other) ==
  /\ liveWorkers' = cleanedWorkers(other)
  /\ liveServers' = cleanedServers(other)
  /\ globalWorker' = IF other THEN 0 ELSE globalWorker
  /\ globalServer' = IF other THEN 0 ELSE globalServer
  /\ IF validateDirectory(directory)
     THEN /\ isInitialized' = (isInitialized /\ ~other)
          /\ initializingDirectory' = IF other THEN "" ELSE initializingDirectory
          /\ UNCHANGED startups
     ELSE /\ isInitialized' = TRUE
          /\ initializingDirectory' = directory
          /\ startups' = Append(startups, "scheduled")

\* the plugin function, called by the host for a directory
Plugin(directory) ==
  /\ Len(startups) < MaxInits
  /\ IF isInitialized /\ initializingDirectory = directory
     THEN UNCHANGED lifecycleVars
     ELSE initialize(directory, isInitialized /\ initializingDirectory # directory)
  /\ UNCHANGED otherVars

\* the setImmediate callback up to await globalServer.start()
StartupServe(k) ==
  /\ k \in 1..Len(startups)
  /\ startups[k] = "scheduled"
  /\ globalServer' = k
  /\ liveServers' = liveServers \cup {k}
  /\ startups' = [startups EXCEPT ![k] = "serving"]
  /\ UNCHANGED <<isInitialized, initializingDirectory, globalWorker, liveWorkers, otherVars>>

\* the setImmediate callback from createWorker() to its end
StartupWorker(k) ==
  /\ k \in 1..Len(startups)
  /\ startups[k] = "serving"
  /\ globalWorker' = k
  /\ liveWorkers' = liveWorkers \cup {k}
  /\ startups' = [startups EXCEPT ![k] = "done"]
  /\ UNCHANGED <<isInitialized, initializingDirectory, globalServer, liveServers, otherVars>>

\* the catch of the setImmediate callback: a write, the port search or
\* createWorker() has thrown
StartupFails(k) ==
  /\ k \in 1..Len(startups)
  /\ startups[k] \in {"scheduled", "serving"}
  /\ cleanup
  /\ startups' = [startups EXCEPT ![k] = "failed"]
  /\ UNCHANGED otherVars

\* the event hook on server.instance.disposed
EventDisposed ==
  /\ cleanup
  /\ UNCHANGED <<startups, otherVars>>

NextLifecycle ==
  \/ \E directory \in Directories : Plugin(directory)
  \/ \E k \in 1..MaxInits : StartupServe(k)
  \/ \E k \in 1..MaxInits : StartupWorker(k)
  \/ \E k \in 1..MaxInits : StartupFails(k)
  \/ EventDisposed

SpecLifecycle == InitLegacy /\ [][NextLifecycle]_vars

startupsFinished == \A k \in 1..Len(startups) : startups[k] \in {"done", "failed"}

\* C29: at most one server and one analyzer worker are live at any time,
\* and when a cleanup has run, no plugin call has initialised since and
\* every start-up callback has finished, no server and no worker is live.
C29_OneServerOneWorker ==
  /\ Cardinality(liveServers) <= 1
  /\ Cardinality(liveWorkers) <= 1
  /\ (~isInitialized /\ startupsFinished) => (liveServers = {} /\ liveWorkers = {})

(***************************************************************************)
(* The persisted and the current DiagramSet of the plugin                  *)
(* (src/unnamed/part_011), under SpecPlugin.                               *)
(***************************************************************************)
\* the start-up is over and no message, job, result or write is under way
operationsCompleted ==
  /\ startup = "ready"
  /\ inbox = <<>>
  /\ \A j \in 1..Len(jobs) : jobs[j].stage = "done"
  /\ resultQueue = <<>>
  /\ handlers = <<>>

\* an update broadcast is appended in a step that leaves the set of the
\* operation it announces in diagrams.json
updateAnnounced ==
  \E i \in (Len(broadcasts) + 1)..Len(broadcasts') : broadcasts'[i].type = "update"

BroadcastAfterWrite ==
  [][updateAnnounced
       => \E h \in 1..Len(handlers) :
            /\ handlers[h].stage = "diagrams.json"
            /\ diagramsJson' = handlers[h].set
            /\ broadcasts'[Len(broadcasts) + 1] = updateBroadcast(handlers[h].kind)]_vars

\* C30: once every diagram_update, diagram_delete and analysis merge has
\* completed, with no write having failed, diagrams.json holds the current
\* DiagramSet, and an update broadcast is sent only once the set it
\* announces has been written.
C30_PersistedIsCurrent ==
  /\ []((operationsCompleted /\ failures = 0) => diagramsJson = currentDiagrams)
  /\ BroadcastAfterWrite

=============================================================================
